---- MODULE Spec2Model ----
(***************************************************************************)
(* Model of rest_cpp::ConnectionPool                                       *)
(* (include/rest_cpp/connection/connection_pool.hpp): the per-endpoint     *)
(* buckets, the waiter registry and its secondary queues, leases, the      *)
(* circuit breaker, idle pruning, shutdown and destruction.                *)
(*                                                                         *)
(* Every region the code runs under mu_ is one atomic action; the steps    *)
(* the code takes without the lock (the alive reads, the start of          *)
(* async_wait, timer->cancel()) are actions of their own, so that every    *)
(* state of the model is a state in which the pool lock is free.           *)
(***************************************************************************)
EXTENDS Integers, Sequences, FiniteSets, TLC

\* ---------------------------------------------------------------- bounds
NumTasks == 2       \* concurrent callers (coroutines / threads)
MaxTime == 1        \* steady_clock ticks explored
MaxId == 3          \* lease ids handed out (m_next_id runs to MaxId + 1)
FewIds == 2         \* lease ids handed out where rotation is not at issue
MaxShutdowns == 2   \* calls of shutdown()
FewShutdowns == 1   \* calls of shutdown() where a second call is not at issue
MaxFailures == 3    \* consecutive failures reported per endpoint
FewFailures == 2    \* the same, where failures past the threshold are not at
                    \* issue
MaxCount == 1       \* calls that raise acquire_shutdown / circuit_breaker_closed
                    \* / acquire_timeout
SizeBits == 8        \* the bits kept of a std::size_t gauge
MaxObj == 2         \* Lease objects made by a move, alive at one time
FewObj == 1         \* the same, where the moves are one operation among all

Tasks == 1..NumTasks
NoTask == 0
NullConn == 0
Inf == 99           \* steady_clock::duration::max(): the timer never expires

\* ------------------------------------------------------------- endpoints
\* Endpoint{host, port, https}; a host is a sequence of characters.
ToLower(c) == IF c = "A" THEN "a" ELSE IF c = "B" THEN "b" ELSE c

normalize_default_port(e) ==
    IF e.port = "" THEN [e EXCEPT !.port = IF e.https THEN "443" ELSE "80"]
    ELSE e

normalize_host(e) ==
    LET h == IF e.host = <<>> THEN <<"l">> ELSE e.host
    IN [e EXCEPT !.host = [i \in 1..Len(h) |-> ToLower(h[i])]]

normalize_endpoint(e) == normalize_host(normalize_default_port(e))

E1 == [host |-> <<"a">>, port |-> "80", https |-> FALSE]
E2 == [host |-> <<"b">>, port |-> "80", https |-> FALSE]
E1raw == [host |-> <<"A">>, port |-> "", https |-> FALSE]

\* the endpoints callers pass in
EndpointInputs == {E1, E2, E1raw}

\* ----------------------------------------------------------- configuration
\* AsyncConnectionPoolConfiguration, times in clock ticks.
MakeCfg(total, perEp) ==
    [max_total_connections |-> total,
     max_connections_per_endpoint |-> perEp,
     connection_idle_ttl |-> 1,
     close_on_shutdown |-> TRUE,
     max_connection_reuse_count |-> 2,
     max_connection_age |-> 1,
     circuit_breaker_failure_threshold |-> 2,
     circuit_breaker_timeout |-> 1]

\* the timeouts callers pass to acquire()
Timeouts == {1, Inf}

VARIABLES
    now,              \* std::chrono::steady_clock::now()
    m_cfg,            \* m_cfg
    alive,            \* m_state->alive
    destroyed,        \* ~ConnectionPool() has run; the members are gone
    m_buckets,        \* m_buckets: Endpoint -> Bucket
    m_waiters,        \* m_waiters: the primary list, in push_back order
    waiter,           \* the Waiter object of each task's acquire call
    m_global_waiters, \* m_global_waiters
    m_total_in_use,   \* m_total_in_use
    m_next_id,        \* m_next_id
    healthy,          \* connections whose is_healthy() is true
    timer,            \* the steady_timer of each task's acquire call
    pc,               \* where each task's acquire() is, or what it returned
    call,             \* the arguments of each task's acquire() in progress
    leases,           \* the Lease objects that hold a connection, and
                      \* those left inert by a move
    sd,               \* shutdown() / destructor in progress; drain: the
                      \* call of drain()
    issued,           \* history: the ids handed out, in order
    ub,               \* history: freed memory has been accessed
    m_metrics,        \* m_metrics: the counters the properties read
    hist              \* history: conn: per live connection, when it was
                      \* made and how often it has been handed out from
                      \* an idle deque; opened: per endpoint passed to
                      \* report_failure, when its failures last reached
                      \* the threshold

vars == <<now, m_cfg, alive, destroyed, m_buckets, m_waiters, waiter,
          m_global_waiters, m_total_in_use, m_next_id, healthy, timer, pc,
          call, leases, sd, issued, ub, m_metrics, hist>>

\* Lease{m_conn, endpoint_, id_}; st: where its reset() is ("held": not
\* started; "release": return_to_pool called; "cancel": release() has left
\* the lock with the timer of waiter w captured); obj: which Lease object
\* this is (the one a hand-out constructs is named by its id)
NoLease == [m_conn |-> NullConn, endpoint |-> E1, id |-> 0, st |-> "held",
            w |-> NoTask, obj |-> 0]
NewLease(c, ep, ident) ==
    [m_conn |-> c, endpoint |-> ep, id |-> ident, st |-> "held", w |-> NoTask,
     obj |-> ident]
\* Waiter{reason, active}; mem: where the object lives ("list": in m_waiters,
\* "to_cancel": in shutdown's local list, "freed": destroyed)
NoWaiter == [reason |-> "None", active |-> FALSE, mem |-> "none"]
NoTimer == [expiry |-> 0, st |-> "none"]
NoCall == [ep |-> E1, timeout |-> 0]
\* drain(): not called; pc: "wait" (in the 100 ms async_wait), "true" /
\* "false" (what it returned)
NoDrain == [pc |-> "none", deadline |-> 0]
EmptyBucket == [idle |-> <<>>, in_use |-> {}, waiters |-> <<>>,
                consecutive_failures |-> 0, circuit_open_until |-> 0]
\* ConnectionPoolMetrics, value-initialised
NoMetrics == [acquire_shutdown |-> 0, acquire_circuit_open |-> 0,
              connection_pruned |-> 0, connection_dropped_reuse_limit |-> 0,
              circuit_breaker_closed |-> 0]
\* the same with the counters of the outcomes of acquire and of the
\* connections made and reused.  The pool only ever adds to its counters and
\* never reads one, so a specification follows the counters its initial
\* m_metrics holds.
AllMetrics == [acquire_success |-> 0, acquire_timeout |-> 0,
               acquire_shutdown |-> 0, acquire_internal_error |-> 0,
               acquire_circuit_open |-> 0,
               connection_created |-> 0, connection_reused |-> 0,
               connection_pruned |-> 0, connection_dropped_reuse_limit |-> 0,
               circuit_breaker_closed |-> 0]
\* the same with the counter of the openings of the circuit breaker
BreakerMetrics == [acquire_shutdown |-> 0, acquire_circuit_open |-> 0,
                   connection_pruned |-> 0,
                   connection_dropped_reuse_limit |-> 0,
                   circuit_breaker_opened |-> 0, circuit_breaker_closed |-> 0]

\* the gauges total_idle and waiters_total, and every counter of the
\* connections made, reused, pruned and dropped and of the invalid releases
GaugeMetrics == [total_idle |-> 0, waiters_total |-> 0,
                 acquire_shutdown |-> 0, acquire_circuit_open |-> 0,
                 connection_created |-> 0, connection_reused |-> 0,
                 connection_pruned |-> 0,
                 connection_dropped_unhealthy |-> 0,
                 connection_dropped_reuse_limit |-> 0,
                 connection_dropped_age_limit |-> 0,
                 release_invalid_id |-> 0, circuit_breaker_closed |-> 0]

\* gauge.fetch_add(k) / gauge.fetch_sub(-k) on the std::size_t gauge named
\* f: unsigned arithmetic, it wraps
gauge_add(m, f, k) ==
    IF f \in DOMAIN m THEN [m EXCEPT ![f] = (@ + k) % (2 ^ SizeBits)] ELSE m

\* gauge.store(v)
gauge_store(m, f, v) == IF f \in DOMAIN m THEN [m EXCEPT ![f] = v] ELSE m

\* counter.fetch_add(1), k times
fetch_add_n(m, f, k) == IF f \in DOMAIN m THEN [m EXCEPT ![f] = @ + k] ELSE m

\* fault seeded into the counting: the counter is raised twice
fetch_add_twice(m, f) ==
    IF f \in DOMAIN m THEN [m EXCEPT ![f] = @ + 2] ELSE m

\* counter.fetch_add(1) on the counter named f
fetch_add(m, f) == IF f \in DOMAIN m THEN [m EXCEPT ![f] = @ + 1] ELSE m

\* --------------------------------------------------------------- helpers
RECURSIVE SumOver(_, _)
SumOver(S, f) ==
    IF S = {} THEN 0
    ELSE LET x == CHOOSE y \in S : TRUE IN f[x] + SumOver(S \ {x}, f)

SeqToSet(s) == {s[i] : i \in 1..Len(s)}

RemoveFromSeq(s, x) == SelectSeq(s, LAMBDA y : y # x)

\* m_buckets[endpoint]: std::unordered_map::operator[] default-constructs
BucketOf(bk, ep) == IF ep \in DOMAIN bk THEN bk[ep] ELSE EmptyBucket

PutBucket(bk, ep, b) ==
    [e \in DOMAIN bk \cup {ep} |-> IF e = ep THEN b ELSE bk[e]]

\* Bucket::is_circuit_open
is_circuit_open(b, t) == t < b.circuit_open_until

\* ConnectionPool::total_idle_locked
total_idle_locked(bk) ==
    SumOver(DOMAIN bk, [e \in DOMAIN bk |-> Len(bk[e].idle)])

\* ConnectionPool::is_connection_healthy -> Connection::is_healthy
is_connection_healthy(h, c) == c \in h

\* ----------------------------------------------------- prune_idle_locked
\* fault seeded into the expiry test: <= in place of <
RECURSIVE PruneFrontOffByOne(_, _, _)
PruneFrontOffByOne(idle, t, ttl) ==
    IF idle = <<>> THEN <<>>
    ELSE IF t - Head(idle).last_used <= ttl THEN idle
    ELSE PruneFrontOffByOne(Tail(idle), t, ttl)

\* the while loop of prune_idle_locked on one deque: pops from the front
\* until an entry has not expired
RECURSIVE PruneFront(_, _, _)
PruneFront(idle, t, ttl) ==
    IF idle = <<>> THEN <<>>
    ELSE IF t - Head(idle).last_used < ttl THEN idle
    ELSE PruneFront(Tail(idle), t, ttl)

prune_idle_locked(bk, t, cfg) ==
    IF cfg.connection_idle_ttl <= 0 THEN bk
    ELSE [e \in DOMAIN bk |->
            [bk[e] EXCEPT !.idle = PruneFront(@, t, cfg.connection_idle_ttl)]]

\* the entries prune_idle_locked pops: one connection_pruned each
PrunedCount(bk, t, cfg) ==
    SumOver(DOMAIN bk,
            [e \in DOMAIN bk |->
               Len(bk[e].idle) - Len(prune_idle_locked(bk, t, cfg)[e].idle)])

\* the connections held by the idle entries of all buckets
IdleConns(bk) ==
    UNION {{bk[e].idle[i].conn : i \in 1..Len(bk[e].idle)} : e \in DOMAIN bk}

InUseConns(bk) == UNION {{u.conn : u \in bk[e].in_use} : e \in DOMAIN bk}

\* ---------------------------------------------------- try_acquire_locked
\* the reuse loop: pops idle entries from the front until one passes the
\* health, reuse-count and age checks; yields the entry (or none) and what
\* is left of the deque
\* reuse_limit, unhealthy, age_limit: the entries dropped for their reuse
\* count, their health, their age; popped: the entries popped in all
RECURSIVE ReuseScan(_, _, _, _)
ReuseScan(idle, h, t, cfg) ==
    IF idle = <<>> THEN [found |-> FALSE, rest |-> <<>>, reuse_limit |-> 0,
                         unhealthy |-> 0, age_limit |-> 0, popped |-> 0]
    ELSE LET entry == Head(idle) IN
         IF ~is_connection_healthy(h, entry.conn)
            THEN [ReuseScan(Tail(idle), h, t, cfg) EXCEPT
                    !.unhealthy = @ + 1, !.popped = @ + 1]
         ELSE IF entry.reuse_count >= cfg.max_connection_reuse_count
            THEN [ReuseScan(Tail(idle), h, t, cfg) EXCEPT
                    !.reuse_limit = @ + 1, !.popped = @ + 1]
         ELSE IF t - entry.created > cfg.max_connection_age
            THEN [ReuseScan(Tail(idle), h, t, cfg) EXCEPT
                    !.age_limit = @ + 1, !.popped = @ + 1]
         ELSE [found |-> TRUE, entry |-> entry, rest |-> Tail(idle),
               reuse_limit |-> 0, unhealthy |-> 0, age_limit |-> 0,
               popped |-> 1]

\* faults seeded into the capacity checks: > in place of >=
AtEndpointCapacityOffByOne(b, cfg) ==
    Cardinality(b.in_use) + Len(b.idle) > cfg.max_connections_per_endpoint

AtGlobalCapacityOffByOne(bk, tiu, cfg) ==
    tiu + SumOver(DOMAIN bk, [e \in DOMAIN bk |-> Len(bk[e].idle)])
        > cfg.max_total_connections

\* the capacity checks before a new connection is created
AtEndpointCapacity(b, cfg) ==
    Cardinality(b.in_use) + Len(b.idle) >= cfg.max_connections_per_endpoint

AtGlobalCapacity(bk, tiu, cfg) ==
    tiu + total_idle_locked(bk) >= cfg.max_total_connections

\* fault seeded into the id counter: it is not advanced
NextIdAfterStuck(nid) == nid

\* the id the hand-out takes, and the counter after it
NextIdAfter(nid) == nid + 1

\* fault seeded into the shutdown check: alive is not read
PoolAliveIgnored(p) == TRUE

\* m_state->alive.load(), the shutdown check
PoolAlive(p) == p.alive

\* Result: the lease (NoLease for std::nullopt) and the pool fields after
\* the call.  p = [alive, bk, tiu, nid, h, metrics]: the fields the call
\* reads.
try_acquire_locked(p, ep, t, cfg) ==
    IF ~PoolAlive(p)
    THEN [lease |-> NoLease, bk |-> p.bk, tiu |-> p.tiu, nid |-> p.nid,
          metrics |-> p.metrics]
    ELSE
    LET pruned == prune_idle_locked(p.bk, t, cfg)
        m1 == [p.metrics EXCEPT
                 !.connection_pruned = @ + PrunedCount(p.bk, t, cfg)]
        bk1 == PutBucket(pruned, ep, BucketOf(pruned, ep))
        bucket == bk1[ep]
    IN
    IF is_circuit_open(bucket, t)
    THEN [lease |-> NoLease, bk |-> bk1, tiu |-> p.tiu, nid |-> p.nid,
          metrics |-> m1]
    ELSE
    LET scan == ReuseScan(bucket.idle, p.h, t, cfg)
        m2 == fetch_add_n(
                fetch_add_n(
                  gauge_add(
                    [m1 EXCEPT
                       !.connection_dropped_reuse_limit = @ + scan.reuse_limit],
                    "total_idle", 0 - scan.popped),
                  "connection_dropped_unhealthy", scan.unhealthy),
                "connection_dropped_age_limit", scan.age_limit)
    IN
    IF scan.found
    THEN LET ident == p.nid
             b2 == [bucket EXCEPT
                      !.idle = scan.rest,
                      !.in_use = @ \cup {[id |-> ident,
                                          conn |-> scan.entry.conn]}]
         IN [lease |-> NewLease(scan.entry.conn, ep, ident),
             bk |-> [bk1 EXCEPT ![ep] = b2], tiu |-> p.tiu + 1,
             nid |-> NextIdAfter(p.nid),
             metrics |-> fetch_add(m2, "connection_reused")]
    ELSE
    LET b3 == [bucket EXCEPT !.idle = <<>>]
        bk3 == [bk1 EXCEPT ![ep] = b3]
    IN
    IF AtEndpointCapacity(b3, cfg) \/ AtGlobalCapacity(bk3, p.tiu, cfg)
    THEN [lease |-> NoLease, bk |-> bk3, tiu |-> p.tiu, nid |-> p.nid,
          metrics |-> m2]
    ELSE LET connection_id == p.nid
             \* the new Connection object is named by the id it is created
             \* under; it is unopened, so not healthy
             raw == connection_id
             b4 == [b3 EXCEPT !.in_use = @ \cup {[id |-> connection_id,
                                                  conn |-> raw]}]
         IN [lease |-> NewLease(raw, ep, connection_id),
             bk |-> [bk3 EXCEPT ![ep] = b4], tiu |-> p.tiu + 1,
             nid |-> NextIdAfter(p.nid),
             metrics |-> fetch_add(m2, "connection_created")]

\* a Connection object lives as long as a bucket owns it
LiveConns(bk) == IdleConns(bk) \cup InUseConns(bk)

\* the pool fields try_acquire_locked reads
PoolNow == [alive |-> alive, bk |-> m_buckets, tiu |-> m_total_in_use,
            nid |-> m_next_id, h |-> healthy, metrics |-> m_metrics]

\* the history of the connections the buckets bk still own
Forget(ch, bk) == [c \in DOMAIN ch \cap LiveConns(bk) |-> ch[c]]

\* the history after a hand-out at time t: a connection that has none yet
\* was made by this call, any other came from an idle deque
Remember(ch, bk, lease, t) ==
    [c \in LiveConns(bk) |->
       IF lease # NoLease /\ c = lease.m_conn
       THEN IF c \in DOMAIN ch
            THEN [ch[c] EXCEPT !.reuses = @ + 1]
            ELSE [born |-> t, reuses |-> 0]
       ELSE ch[c]]

\* ------------------------------------------- determine_wait_reason_locked
determine_wait_reason_locked(bk, tiu, ep, cfg) ==
    IF ep \notin DOMAIN bk
    THEN IF tiu + total_idle_locked(bk) >= cfg.max_total_connections
         THEN "GlobalCapacity" ELSE "EndpointCapacity"
    ELSE IF Cardinality(bk[ep].in_use) + Len(bk[ep].idle)
              >= cfg.max_connections_per_endpoint
         THEN "EndpointCapacity" ELSE "GlobalCapacity"

\* ----------------------------------------- pop_waiter_for_endpoint_locked
\* waiter->active as the code reads it: a Waiter whose memory has been
\* freed yields whatever the memory holds (g: the freed waiters that read
\* as true)
ReadActive(wt, w, g) ==
    IF wt[w].mem = "freed" THEN w \in g ELSE wt[w].active

\* one of the two while loops: pops from the front until an active waiter
RECURSIVE PopActive(_, _, _)
PopActive(q, wt, g) ==
    IF q = <<>> THEN [w |-> NoTask, rest |-> <<>>, freedRead |-> FALSE]
    ELSE IF ReadActive(wt, Head(q), g)
         THEN [w |-> Head(q), rest |-> Tail(q),
               freedRead |-> wt[Head(q)].mem = "freed"]
         ELSE LET r == PopActive(Tail(q), wt, g)
              IN [r EXCEPT !.freedRead = @ \/ wt[Head(q)].mem = "freed"]

\* fault seeded into the pop: the global queue is served before the local
pop_waiter_global_first(bk, gw, wt, ep, g) ==
    LET glo == PopActive(gw, wt, g)
        loc == IF ep \in DOMAIN bk /\ glo.w = NoTask
               THEN PopActive(bk[ep].waiters, wt, g)
               ELSE [w |-> NoTask, freedRead |-> FALSE,
                     rest |-> IF ep \in DOMAIN bk THEN bk[ep].waiters
                              ELSE <<>>]
        bk1 == IF ep \in DOMAIN bk
               THEN [bk EXCEPT ![ep].waiters = loc.rest] ELSE bk
    IN [w |-> IF glo.w # NoTask THEN glo.w ELSE loc.w, bk |-> bk1,
        gw |-> glo.rest,
        from |-> IF glo.w # NoTask THEN "global"
                 ELSE IF loc.w # NoTask THEN "local" ELSE "none",
        freedRead |-> loc.freedRead \/ glo.freedRead]

\* Result: the waiter whose timer is returned (NoTask for the empty
\* shared_ptr) and the queues after the call
pop_waiter_for_endpoint_locked(bk, gw, wt, ep, g) ==
    LET loc == IF ep \in DOMAIN bk THEN PopActive(bk[ep].waiters, wt, g)
               ELSE [w |-> NoTask, rest |-> <<>>, freedRead |-> FALSE]
        bk1 == IF ep \in DOMAIN bk
               THEN [bk EXCEPT ![ep].waiters = loc.rest] ELSE bk
    IN IF loc.w # NoTask
       THEN [w |-> loc.w, bk |-> bk1, gw |-> gw, from |-> "local",
             freedRead |-> loc.freedRead]
       ELSE LET glo == PopActive(gw, wt, g)
            IN [w |-> glo.w, bk |-> bk1, gw |-> glo.rest,
                from |-> IF glo.w # NoTask THEN "global" ELSE "none",
                freedRead |-> loc.freedRead \/ glo.freedRead]

\* the Waiter objects whose memory has been freed while a queue still
\* points at them
QueuedWaiters(bk, gw) ==
    SeqToSet(gw) \cup UNION {SeqToSet(bk[e].waiters) : e \in DOMAIN bk}

FreedQueued == {w \in QueuedWaiters(m_buckets, m_global_waiters) :
                  waiter[w].mem = "freed"}

\* ------------------------------------------------------------------ Init
InitPool(cfg, metrics) ==
    /\ now = 0
    /\ m_cfg = cfg
    /\ alive = TRUE
    /\ destroyed = FALSE
    /\ m_buckets = << >>
    /\ m_waiters = <<>>
    /\ waiter = [t \in Tasks |-> NoWaiter]
    /\ m_global_waiters = <<>>
    /\ m_total_in_use = 0
    /\ m_next_id = 1
    /\ healthy = {}
    /\ timer = [t \in Tasks |-> NoTimer]
    /\ pc = [t \in Tasks |-> "idle"]
    /\ call = [t \in Tasks |-> NoCall]
    /\ leases = {}
    /\ sd = [pc |-> "none", to_cancel |-> {}, count |-> 0, dtor |-> FALSE,
             drain |-> NoDrain]
    /\ issued = <<>>
    /\ ub = FALSE
    /\ m_metrics = metrics
    /\ hist = [conn |-> << >>, opened |-> << >>]

\* the pool as constructed with configuration cfg
InitWith(cfg) == InitPool(cfg, NoMetrics)

\* the same, following every counter
InitCounting(cfg) == InitPool(cfg, AllMetrics)

\* what a hand-out (or std::nullopt) by try_acquire_locked leaves behind
ApplyAcquire(r) ==
    /\ m_buckets' = r.bk
    /\ m_metrics' = r.metrics
    /\ hist' = [hist EXCEPT !.conn = Remember(@, r.bk, r.lease, now)]
    /\ m_total_in_use' = r.tiu
    /\ m_next_id' = r.nid
    /\ healthy' = healthy \cap LiveConns(r.bk)
    /\ issued' = IF r.lease = NoLease THEN issued
                 ELSE Append(issued, r.lease.id)
    /\ leases' = IF r.lease = NoLease THEN leases
                 ELSE leases \cup {r.lease}

\* ------------------------------------------------------------ try_acquire
TryAcquire(e) ==
    LET ep == normalize_endpoint(e)
        r == try_acquire_locked(PoolNow, ep, now, m_cfg)
    IN /\ ~destroyed
       /\ r.lease = NoLease \/ m_next_id <= MaxId
       /\ ApplyAcquire(r)
       /\ UNCHANGED <<now, m_cfg, alive, destroyed, m_waiters, waiter,
                      m_global_waiters, timer, pc, call, sd, ub>>

Tick ==
    /\ now < MaxTime
    /\ now' = now + 1
    /\ UNCHANGED <<m_cfg, alive, destroyed, m_buckets, m_waiters, waiter,
                   m_global_waiters, m_total_in_use, m_next_id, healthy,
                   timer, pc, call, leases, sd, issued, ub,
                   m_metrics, hist>>

\* ----------------------------------------------------------------- Lease
\* Lease::get: nullptr when the pool state is gone or not alive
Lease_get(l) ==
    IF l.m_conn = NullConn \/ destroyed \/ ~alive THEN NullConn
    ELSE l.m_conn

\* Lease::operator bool
Lease_bool(l) == Lease_get(l) # NullConn

\* fault seeded into Lease::reset: alive is not read
ResetCallsPoolIgnoringAlive(l, isAlive, isDestroyed) ==
    l.m_conn # NullConn /\ ~isDestroyed

\* whether Lease::reset calls back into the pool: the lease holds a
\* connection, the weak reference upgrades and alive reads true
ResetCallsPool(l, isAlive, isDestroyed) ==
    l.m_conn # NullConn /\ ~isDestroyed /\ isAlive

\* Lease::reset up to the call of return_to_pool (~Lease, operator=); a
\* lease that does not call back is inert and gone
LeaseReset(l) ==
    /\ l.st = "held"
    /\ leases' = IF ResetCallsPool(l, alive, destroyed)
                 THEN (leases \ {l}) \cup {[l EXCEPT !.st = "release"]}
                 ELSE leases \ {l}
    /\ UNCHANGED <<now, m_cfg, alive, destroyed, m_buckets, m_waiters,
                   waiter, m_global_waiters, m_total_in_use, m_next_id,
                   healthy, timer, pc, call, sd, issued, ub,
                   m_metrics, hist>>

\* fault seeded into move_from: id_ is not taken over
move_from_without_id(other) ==
    [dst |-> [other EXCEPT !.id = 0],
     src |-> [other EXCEPT !.m_conn = NullConn, !.id = 0]]

\* fault seeded into move_from: the source keeps m_conn and id_
move_from_keeping_source(other) == [dst |-> other, src |-> other]

\* Lease::move_from: the destination takes the members of the source, the
\* source is left with m_conn = nullptr and id_ = 0
move_from(other) ==
    [dst |-> other, src |-> [other EXCEPT !.m_conn = NullConn, !.id = 0]]

\* the names of the Lease objects made by a move (a hand-out names its
\* object by the id)
MovedObjs == (MaxId + 1)..(MaxId + MaxObj)

\* the name of a Lease object that does not exist yet
FreshObj == CHOOSE o \in MovedObjs :
              /\ o \notin {l.obj : l \in leases}
              /\ \A p \in MovedObjs :
                   p \notin {l.obj : l \in leases} => o <= p

\* Lease(Lease&& other): a new Lease object is move-constructed from src
MoveConstruct(src) ==
    /\ src.st = "held"
    /\ MovedObjs \ {l.obj : l \in leases} # {}
    /\ LET mv == move_from(src)
       IN leases' = (leases \ {src})
                      \cup {[mv.dst EXCEPT !.obj = FreshObj], mv.src}
    /\ UNCHANGED <<now, m_cfg, alive, destroyed, m_buckets, m_waiters,
                   waiter, m_global_waiters, m_total_in_use, m_next_id,
                   healthy, timer, pc, call, sd, issued, ub,
                   m_metrics, hist>>

\* the IdleEntry release() pushes for a healthy connection
ReleasedEntry(c, t) ==
    [conn |-> c, last_used |-> t, created |-> t, reuse_count |-> 0]

\* faults seeded into release(): the in_use entry stays; the counter stays
EraseInUseSkipped(in_use, it2) == in_use

DecTotalInUseSkipped(tiu) == tiu

\* bucket.in_use.erase(it2)
EraseInUse(in_use, it2) == in_use \ {it2}

\* --m_total_in_use
DecTotalInUse(tiu) == tiu - 1

\* release(), the part under the lock.  Result: the pool fields after it
\* and the waiter whose timer was captured.
release_locked(bk, gw, wt, tiu, h, ep, ident, t, g) ==
    IF ep \notin DOMAIN bk \/ ~(\E u \in bk[ep].in_use : u.id = ident)
    THEN [valid |-> FALSE, bk |-> bk, gw |-> gw, tiu |-> tiu,
          w |-> NoTask, from |-> "none", freedRead |-> FALSE]
    ELSE
    LET it2 == CHOOSE u \in bk[ep].in_use : u.id = ident
        uptr_conn == it2.conn
        b1 == [bk[ep] EXCEPT
                 !.in_use = EraseInUse(@, it2),
                 !.idle = IF is_connection_healthy(h, uptr_conn)
                          THEN Append(@, ReleasedEntry(uptr_conn, t))
                          ELSE @]
        bk1 == [bk EXCEPT ![ep] = b1]
        popped == pop_waiter_for_endpoint_locked(bk1, gw, wt, ep, g)
    IN [valid |-> TRUE, bk |-> popped.bk, gw |-> popped.gw,
        tiu |-> DecTotalInUse(tiu), w |-> popped.w, from |-> popped.from,
        freedRead |-> popped.freedRead]

\* fault seeded into release(): the connection it drops is not counted
release_metrics_drop_uncounted(m, bk, h, ep, ident, w) ==
    IF ep \notin DOMAIN bk \/ ~(\E u \in bk[ep].in_use : u.id = ident)
    THEN fetch_add(m, "release_invalid_id")
    ELSE LET it2 == CHOOSE u \in bk[ep].in_use : u.id = ident
             m1 == IF is_connection_healthy(h, it2.conn)
                   THEN gauge_add(m, "total_idle", 1)
                   ELSE m
         IN IF w # NoTask THEN gauge_add(m1, "waiters_total", 0 - 1) ELSE m1

\* the metrics after release(): release_invalid_id for a bucket or an id
\* that is not found; else total_idle or connection_dropped_unhealthy by the
\* health check, and waiters_total lowered for the waiter w it popped
release_metrics(m, bk, h, ep, ident, w) ==
    IF ep \notin DOMAIN bk \/ ~(\E u \in bk[ep].in_use : u.id = ident)
    THEN fetch_add(m, "release_invalid_id")
    ELSE LET it2 == CHOOSE u \in bk[ep].in_use : u.id = ident
             m1 == IF is_connection_healthy(h, it2.conn)
                   THEN gauge_add(m, "total_idle", 1)
                   ELSE fetch_add(m, "connection_dropped_unhealthy")
         IN IF w # NoTask THEN gauge_add(m1, "waiters_total", 0 - 1) ELSE m1

\* waiter->active = false on the popped waiter
MarkInactive(wt, w) ==
    IF w # NoTask /\ wt[w].mem # "freed"
    THEN [wt EXCEPT ![w].active = FALSE] ELSE wt

\* timer->cancel(): completes a pending async_wait with operation_aborted;
\* a timer nobody waits on is left as it is
CancelTimer(tm, w) ==
    IF w # NoTask /\ tm[w].st = "pending"
    THEN [tm EXCEPT ![w].st = "aborted"] ELSE tm

\* release() called back by Lease::reset: the locked region.  Without a
\* timer to cancel the call is over and reset nulls m_conn.
Release(l) ==
    /\ l.st = "release"
    /\ IF destroyed
       THEN \* this->release on a destroyed pool
            /\ ub' = TRUE
            /\ leases' = leases \ {l}
            /\ UNCHANGED <<m_buckets, m_global_waiters, m_total_in_use,
                           waiter, healthy, hist, m_metrics>>
       ELSE \E g \in SUBSET FreedQueued :
            LET r == release_locked(m_buckets, m_global_waiters, waiter,
                                    m_total_in_use, healthy, l.endpoint,
                                    l.id, now, g)
            IN /\ m_buckets' = r.bk
               /\ m_global_waiters' = r.gw
               /\ m_total_in_use' = r.tiu
               /\ waiter' = MarkInactive(waiter, r.w)
               /\ healthy' = healthy \cap LiveConns(r.bk)
               /\ hist' = [hist EXCEPT !.conn = Forget(@, r.bk)]
               /\ ub' = (ub \/ r.freedRead)
               /\ m_metrics' = release_metrics(m_metrics, m_buckets, healthy,
                                               l.endpoint, l.id, r.w)
               /\ leases' = IF r.w # NoTask
                            THEN (leases \ {l}) \cup
                                 {[l EXCEPT !.st = "cancel", !.w = r.w]}
                            ELSE leases \ {l}
    /\ UNCHANGED <<now, m_cfg, alive, destroyed, m_waiters, m_next_id,
                   timer, pc, call, sd, issued>>

\* release(), after the lock: timer->cancel(); then reset nulls m_conn
ReleaseCancel(l) ==
    /\ l.st = "cancel"
    /\ timer' = CancelTimer(timer, l.w)
    /\ leases' = leases \ {l}
    /\ UNCHANGED <<now, m_cfg, alive, destroyed, m_buckets, m_waiters,
                   waiter, m_global_waiters, m_total_in_use, m_next_id,
                   healthy, pc, call, sd, issued, ub,
                   m_metrics, hist>>

\* Lease::operator=(Lease&& other), dst = std::move(src) in the thread that
\* owns both: reset() of dst, with the release() it calls (the locked
\* region and the cancel after it), then move_from(src)
MoveAssign(dst, src) ==
    /\ dst.st = "held" /\ src.st = "held"
    /\ dst.obj # src.obj
    /\ IF ResetCallsPool(dst, alive, destroyed)
       THEN \E g \in SUBSET FreedQueued :
            LET r == release_locked(m_buckets, m_global_waiters, waiter,
                                    m_total_in_use, healthy, dst.endpoint,
                                    dst.id, now, g)
            IN /\ m_buckets' = r.bk
               /\ m_global_waiters' = r.gw
               /\ m_total_in_use' = r.tiu
               /\ waiter' = MarkInactive(waiter, r.w)
               /\ timer' = CancelTimer(timer, r.w)
               /\ healthy' = healthy \cap LiveConns(r.bk)
               /\ hist' = [hist EXCEPT !.conn = Forget(@, r.bk)]
               /\ ub' = (ub \/ r.freedRead)
               /\ m_metrics' = release_metrics(m_metrics, m_buckets, healthy,
                                               dst.endpoint, dst.id, r.w)
       ELSE UNCHANGED <<m_buckets, m_global_waiters, m_total_in_use,
                        waiter, timer, healthy, hist, ub, m_metrics>>
    /\ LET mv == move_from(src)
       IN leases' = (leases \ {dst, src})
                      \cup {[mv.dst EXCEPT !.obj = dst.obj], mv.src}
    /\ UNCHANGED <<now, m_cfg, alive, destroyed, m_waiters, m_next_id,
                   pc, call, sd, issued>>

\* the lease holder runs a request through the connection: it connects
\* (ok) or the transport fails and the connection closes
UseConnection(l, ok) ==
    /\ l.st = "held"
    /\ Lease_get(l) # NullConn
    /\ healthy' = IF ok THEN healthy \cup {l.m_conn}
                  ELSE healthy \ {l.m_conn}
    /\ healthy' # healthy
    /\ UNCHANGED <<now, m_cfg, alive, destroyed, m_buckets, m_waiters,
                   waiter, m_global_waiters, m_total_in_use, m_next_id,
                   timer, pc, call, leases, sd, issued, ub,
                   m_metrics, hist>>

\* ---------------------------------------------------------------- acquire
\* expires_after(timeout): duration::max() never expires
ExpiresAfter(t, timeout) == IF timeout = Inf THEN Inf ELSE t + timeout

\* a task that is not inside acquire(): it has not called yet ("idle") or
\* its last call returned Ok or the AcquireError named
Returned == {"idle", "Ok", "Timeout", "Shutdown", "InternalError"}

\* co_return: the call of task t is over
Return(t, result) ==
    /\ pc' = [pc EXCEPT ![t] = result]
    /\ call' = [call EXCEPT ![t] = NoCall]

\* the top of the loop: the fast path try_acquire(endpoint); when it yields
\* nothing, the alive check without the lock, and the timer is made and
\* armed
AcquireFastPath(t, ep, timeout) ==
    LET r0 == try_acquire_locked(PoolNow, ep, now, m_cfg)
        r == IF r0.lease # NoLease
             THEN [r0 EXCEPT !.metrics = fetch_add(@, "acquire_success")]
             ELSE IF ~alive
             THEN [r0 EXCEPT !.metrics.acquire_shutdown = @ + 1]
             ELSE r0
    IN /\ r.lease = NoLease \/ m_next_id <= MaxId
       /\ ApplyAcquire(r)
       /\ IF r.lease # NoLease
          THEN /\ Return(t, "Ok")
               /\ UNCHANGED timer
          ELSE IF ~alive
          THEN /\ Return(t, "Shutdown")
               /\ UNCHANGED timer
          ELSE /\ call' = [call EXCEPT ![t] =
                             [ep |-> ep, timeout |-> timeout]]
               /\ timer' = [timer EXCEPT ![t] =
                              [expiry |-> ExpiresAfter(now, timeout),
                               st |-> "armed"]]
               /\ pc' = [pc EXCEPT ![t] = "acq_lock"]

\* acquire() is called: normalize, then the first pass of the loop
Acquire(t, e, timeout) ==
    /\ pc[t] \in Returned
    /\ ~destroyed
    /\ m_metrics.acquire_shutdown < MaxCount
    /\ AcquireFastPath(t, normalize_endpoint(e), timeout)
    /\ UNCHANGED <<now, m_cfg, alive, destroyed, m_waiters, waiter,
                   m_global_waiters, sd, ub>>

\* `continue` after operation_aborted: the top of the loop again
AcquireRetry(t) ==
    /\ pc[t] = "acq_retry"
    /\ ~destroyed
    /\ AcquireFastPath(t, call[t].ep, call[t].timeout)
    /\ UNCHANGED <<now, m_cfg, alive, destroyed, m_waiters, waiter,
                   m_global_waiters, sd, ub>>

\* fault seeded into the enqueue: push_front in place of push_back
EnqueueFront(bk, gw, ep, reason, t) ==
    IF reason = "EndpointCapacity"
    THEN [bk |-> PutBucket(bk, ep, [BucketOf(bk, ep) EXCEPT
                                      !.waiters = <<t>> \o @]),
          gw |-> gw]
    ELSE [bk |-> bk, gw |-> <<t>> \o gw]

\* fault seeded into the cleanup after the wait: the secondary queue keeps
\* the pointer
DequeueSkipped(bk, gw, ep, reason, t) == [bk |-> bk, gw |-> gw]

\* the secondary queue a waiter of this reason is put in
Enqueue(bk, gw, ep, reason, t) ==
    IF reason = "EndpointCapacity"
    THEN [bk |-> PutBucket(bk, ep, [BucketOf(bk, ep) EXCEPT
                                      !.waiters = Append(@, t)]),
          gw |-> gw]
    ELSE [bk |-> bk, gw |-> Append(gw, t)]

\* erase(queue_it) from the secondary queue of this reason
Dequeue(bk, gw, ep, reason, t) ==
    IF reason = "EndpointCapacity"
    THEN [bk |-> IF ep \in DOMAIN bk
                 THEN [bk EXCEPT ![ep].waiters = RemoveFromSeq(@, t)]
                 ELSE bk,
          gw |-> gw]
    ELSE [bk |-> bk, gw |-> RemoveFromSeq(gw, t)]

\* fault seeded into the slow path: the waiter is enqueued and the pool is
\* not tried again
lost_wakeup_close_skipped(p, ep, t, cfg) ==
    [lease |-> NoLease, bk |-> p.bk, tiu |-> p.tiu, nid |-> p.nid,
     metrics |-> p.metrics]

\* "Close lost-wakeup window": try_acquire_locked(endpoint) with the waiter
\* enqueued, still under the lock
lost_wakeup_close(p, ep, t, cfg) == try_acquire_locked(p, ep, t, cfg)

\* the locked region of the slow path: re-check alive, enqueue the waiter,
\* try_acquire_locked once more (the lost-wakeup close)
AcquireEnqueue(t) ==
    /\ pc[t] = "acq_lock"
    /\ ~destroyed
    /\ IF ~alive
       THEN /\ Return(t, "Shutdown")
            /\ timer' = [timer EXCEPT ![t] = NoTimer]
            /\ m_metrics' = [m_metrics EXCEPT !.acquire_shutdown = @ + 1]
            /\ UNCHANGED <<m_buckets, m_waiters, waiter, m_global_waiters,
                           m_total_in_use, m_next_id, healthy, leases,
                           issued, hist>>
       ELSE LET ep == call[t].ep
                reason == determine_wait_reason_locked(
                              m_buckets, m_total_in_use, ep, m_cfg)
                q == Enqueue(m_buckets, m_global_waiters, ep, reason, t)
                r == lost_wakeup_close([PoolNow EXCEPT !.bk = q.bk], ep,
                                       now, m_cfg)
                dq == Dequeue(r.bk, q.gw, ep, reason, t)
            IN /\ r.lease = NoLease \/ m_next_id <= MaxId
               /\ IF r.lease # NoLease
                  THEN /\ ApplyAcquire([r EXCEPT
                                          !.bk = dq.bk,
                                          !.metrics = fetch_add(
                                              @, "acquire_success")])
                       /\ m_global_waiters' = dq.gw
                       /\ Return(t, "Ok")
                       /\ timer' = [timer EXCEPT ![t] = NoTimer]
                       /\ UNCHANGED <<m_waiters, waiter>>
                  ELSE /\ ApplyAcquire([r EXCEPT !.metrics = gauge_add(
                                              @, "waiters_total", 1)])
                       /\ m_global_waiters' = q.gw
                       /\ m_waiters' = Append(m_waiters, t)
                       /\ waiter' = [waiter EXCEPT ![t] =
                                       [reason |-> reason, active |-> TRUE,
                                        mem |-> "list"]]
                       /\ pc' = [pc EXCEPT ![t] = "acq_unlocked"]
                       /\ UNCHANGED <<call, timer>>
    /\ UNCHANGED <<now, m_cfg, alive, destroyed, sd, ub>>

\* co_await timer->async_wait(...): the wait starts, the coroutine suspends
AsyncWait(t) ==
    /\ pc[t] = "acq_unlocked"
    /\ timer' = [timer EXCEPT ![t].st = "pending"]
    /\ pc' = [pc EXCEPT ![t] = "acq_suspended"]
    /\ UNCHANGED <<now, m_cfg, alive, destroyed, m_buckets, m_waiters,
                   waiter, m_global_waiters, m_total_in_use, m_next_id,
                   healthy, call, leases, sd, issued, ub,
                   m_metrics, hist>>

\* the timer reaches its expiry: the wait completes without error
TimerExpire(t) ==
    /\ timer[t].st = "pending"
    /\ timer[t].expiry # Inf
    /\ now >= timer[t].expiry
    /\ timer' = [timer EXCEPT ![t].st = "fired"]
    /\ UNCHANGED <<now, m_cfg, alive, destroyed, m_buckets, m_waiters,
                   waiter, m_global_waiters, m_total_in_use, m_next_id,
                   healthy, pc, call, leases, sd, issued, ub,
                   m_metrics, hist>>

\* the outcome of the wait, decided by errc alone
WakeOutcome(st, active) == IF st = "fired" THEN "Timeout" ELSE "retry"

\* the coroutine resumes after the wait: the cleanup under the lock ("remove
\* ourselves on ALL exit paths"), then the branch on errc.  The Waiter the
\* iterator names may have been moved to shutdown's list or freed by then:
\* a is what reading waiter_iterator->active yields.
AcquireResume(t) ==
    /\ pc[t] = "acq_suspended"
    /\ timer[t].st \in {"fired", "aborted"}
    /\ \E a \in BOOLEAN :
         /\ waiter[t].mem # "freed" => a = waiter[t].active
         /\ IF destroyed
            THEN UNCHANGED <<m_buckets, m_global_waiters, m_waiters,
                             waiter>>
            ELSE LET dq == IF a THEN Dequeue(m_buckets, m_global_waiters,
                                             call[t].ep, waiter[t].reason,
                                             t)
                           ELSE [bk |-> m_buckets, gw |-> m_global_waiters]
                 IN /\ m_buckets' = dq.bk
                    /\ m_global_waiters' = dq.gw
                    /\ m_waiters' = RemoveFromSeq(m_waiters, t)
                    /\ waiter' = [waiter EXCEPT ![t] =
                                    IF @.mem = "list" THEN NoWaiter
                                    ELSE [@ EXCEPT !.mem = "freed"]]
         /\ LET out == WakeOutcome(timer[t].st, waiter[t].active)
                \* waiters_total.fetch_sub(1) when active was read as true
                m1 == IF a /\ ~destroyed
                      THEN gauge_add(m_metrics, "waiters_total", 0 - 1)
                      ELSE m_metrics
            IN IF out = "retry"
               THEN /\ pc' = [pc EXCEPT ![t] = "acq_retry"]
                    /\ m_metrics' = m1
                    /\ UNCHANGED call
               ELSE /\ Return(t, out)
                    /\ m_metrics' = fetch_add(m1, "acquire_timeout")
    /\ ub' = (ub \/ destroyed \/ waiter[t].mem # "list")
    /\ timer' = [timer EXCEPT ![t] = NoTimer]
    \* the timer is gone: a shared_ptr to it captured by release() or held
    \* in to_cancel cannot wake this task any more
    /\ leases' = {IF l.w = t THEN [l EXCEPT !.w = NoTask] ELSE l :
                    l \in leases}
    /\ sd' = [sd EXCEPT !.to_cancel = @ \ {t}]
    /\ UNCHANGED <<now, m_cfg, alive, destroyed, m_total_in_use, m_next_id,
                   healthy, issued, hist>>

\* a caller enters the pool after its destructor has run
TouchDestroyed(t) ==
    /\ destroyed
    /\ pc[t] \in {"acq_lock", "acq_retry"}
    /\ ub' = TRUE
    /\ \E result \in Returned \ {"idle"} : Return(t, result)
    /\ timer' = [timer EXCEPT ![t] = NoTimer]
    /\ UNCHANGED <<now, m_cfg, alive, destroyed, m_buckets, m_waiters,
                   waiter, m_global_waiters, m_total_in_use, m_next_id,
                   healthy, leases, sd, issued, m_metrics, hist>>

\* -------------------------------------------------------- circuit breaker
report_connection_failure(bk, ep, t, cfg) ==
    LET b == BucketOf(bk, ep)
        n == b.consecutive_failures + 1
    IN PutBucket(bk, ep,
         [b EXCEPT !.consecutive_failures = n,
                   !.circuit_open_until =
                       IF n >= cfg.circuit_breaker_failure_threshold
                       THEN t + cfg.circuit_breaker_timeout ELSE @])

\* the metrics after report_connection_failure: circuit_breaker_opened is
\* raised where circuit_open_until is set
report_connection_failure_metrics(bk, ep, m, cfg) ==
    IF BucketOf(bk, ep).consecutive_failures + 1
         >= cfg.circuit_breaker_failure_threshold
    THEN fetch_add(m, "circuit_breaker_opened")
    ELSE m

\* fault seeded into report_connection_success: m_buckets[endpoint] in
\* place of find()
report_connection_success_creating(bk, ep) ==
    PutBucket(bk, ep, [BucketOf(bk, ep) EXCEPT !.consecutive_failures = 0])

\* fault seeded into report_connection_success: the reset of the failures
\* also closes the circuit
report_connection_success_closing(bk, ep) ==
    IF ep \notin DOMAIN bk THEN bk
    ELSE IF bk[ep].consecutive_failures > 0
         THEN [bk EXCEPT ![ep].consecutive_failures = 0,
                         ![ep].circuit_open_until = 0]
         ELSE bk

\* ConnectionPool::report_connection_success
report_connection_success(bk, ep) ==
    IF ep \notin DOMAIN bk THEN bk
    ELSE IF bk[ep].consecutive_failures > 0
         THEN [bk EXCEPT ![ep].consecutive_failures = 0]
         ELSE bk

\* the metrics after report_connection_success: circuit_breaker_closed is
\* raised where consecutive_failures is reset
report_connection_success_metrics(bk, ep, m) ==
    IF ep \in DOMAIN bk /\ bk[ep].consecutive_failures > 0
    THEN [m EXCEPT !.circuit_breaker_closed = @ + 1]
    ELSE m

\* the consecutive failures counted for the endpoint e as it is passed
Failures(e) == BucketOf(m_buckets, e).consecutive_failures

\* report_failure(endpoint): the endpoint is used as it is passed
ReportFailure(e) ==
    /\ ~destroyed
    /\ Failures(e) < MaxFailures
    /\ m_buckets' = report_connection_failure(m_buckets, e, now, m_cfg)
    /\ hist' = IF Failures(e) + 1 = m_cfg.circuit_breaker_failure_threshold
               THEN [hist EXCEPT !.opened =
                       [x \in DOMAIN @ \cup {e} |->
                          IF x = e THEN now ELSE @[x]]]
               ELSE hist
    /\ m_metrics' = report_connection_failure_metrics(m_buckets, e,
                                                      m_metrics, m_cfg)
    /\ UNCHANGED <<now, m_cfg, alive, destroyed, m_waiters, waiter,
                   m_global_waiters, m_total_in_use, m_next_id, healthy,
                   timer, pc, call, leases, sd, issued, ub>>

\* report_success(endpoint)
ReportSuccess(e) ==
    /\ ~destroyed
    /\ m_metrics.circuit_breaker_closed < MaxCount
    /\ m_buckets' = report_connection_success(m_buckets, e)
    /\ m_buckets' # m_buckets
    /\ m_metrics' = report_connection_success_metrics(m_buckets, e, m_metrics)
    /\ UNCHANGED <<now, m_cfg, alive, destroyed, m_waiters, waiter,
                   m_global_waiters, m_total_in_use, m_next_id, healthy,
                   timer, pc, call, leases, sd, issued, ub, hist>>

\* --------------------------------------------- shutdown and the destructor
\* fault seeded into shutdown(): the flag is flipped, not cleared
AliveFlipped(a) == ~a

\* m_state->alive.store(false)
AliveStored(a) == FALSE

\* m_state->alive.store(false): the first statement of shutdown() and of
\* ~ConnectionPool()
ShutdownStart(dtor) ==
    /\ sd.pc = "none"
    /\ ~destroyed
    /\ sd.count < MaxShutdowns
    /\ alive' = AliveStored(alive)
    /\ sd' = [sd EXCEPT !.pc = "swap", !.dtor = dtor]
    /\ UNCHANGED <<now, m_cfg, destroyed, m_buckets, m_waiters, waiter,
                   m_global_waiters, m_total_in_use, m_next_id, healthy,
                   timer, pc, call, leases, issued, ub,
                   m_metrics, hist>>

\* to_cancel.swap(m_waiters) under the lock
ShutdownSwap ==
    /\ sd.pc = "swap"
    /\ sd' = [sd EXCEPT !.pc = "cancel", !.to_cancel = SeqToSet(m_waiters)]
    /\ m_waiters' = <<>>
    /\ waiter' = [t \in Tasks |->
                    IF t \in SeqToSet(m_waiters)
                    THEN [waiter[t] EXCEPT !.mem = "to_cancel"]
                    ELSE waiter[t]]
    /\ m_metrics' = gauge_store(m_metrics, "waiters_total", 0)
    /\ UNCHANGED <<now, m_cfg, alive, destroyed, m_buckets,
                   m_global_waiters, m_total_in_use, m_next_id, healthy,
                   timer, pc, call, leases, issued, ub, hist>>

\* the loop over to_cancel outside the lock: timer->cancel() on each
ShutdownCancel ==
    /\ sd.pc = "cancel"
    /\ timer' = [t \in Tasks |->
                   IF t \in sd.to_cancel /\ timer[t].st = "pending"
                   THEN [timer[t] EXCEPT !.st = "aborted"]
                   ELSE timer[t]]
    /\ sd' = [sd EXCEPT !.pc = "close"]
    /\ UNCHANGED <<now, m_cfg, alive, destroyed, m_buckets, m_waiters,
                   waiter, m_global_waiters, m_total_in_use, m_next_id,
                   healthy, pc, call, leases, issued, ub,
                   m_metrics, hist>>

\* the connections closed when close_on_shutdown is set: shutdown() closes
\* the idle ones, the destructor the in-use ones too
ClosedOnShutdown(bk, dtor) ==
    IF dtor THEN IdleConns(bk) \cup InUseConns(bk) ELSE IdleConns(bk)

\* the close loop under the lock, then the function returns: to_cancel is
\* destroyed and with it every Waiter swapped into it; after the destructor
\* the members of the pool are gone as well
ShutdownClose ==
    /\ sd.pc = "close"
    /\ healthy' = IF m_cfg.close_on_shutdown
                  THEN healthy \ ClosedOnShutdown(m_buckets, sd.dtor)
                  ELSE healthy
    /\ waiter' = [t \in Tasks |->
                    IF waiter[t].mem = "to_cancel"
                    THEN [waiter[t] EXCEPT !.mem = "freed"]
                    ELSE waiter[t]]
    /\ destroyed' = sd.dtor
    /\ sd' = [sd EXCEPT !.pc = "none", !.to_cancel = {},
                         !.count = sd.count + 1, !.dtor = FALSE]
    /\ UNCHANGED <<now, m_cfg, alive, m_buckets, m_waiters,
                   m_global_waiters, m_total_in_use, m_next_id, timer, pc,
                   call, leases, issued, ub,
                   m_metrics, hist>>

\* ------------------------------------------------------------------ drain
\* the while condition of drain, negated: now() < deadline does not hold
DrainExpired(t, deadline) == ~(t < deadline)

\* one pass of the loop of drain: past the deadline drain returns false;
\* else, under the lock, it returns true when m_total_in_use is 0, and
\* otherwise it goes to wait 100 ms
DrainPass(deadline) ==
    IF DrainExpired(now, deadline) THEN "false"
    ELSE IF m_total_in_use = 0 THEN "true"
    ELSE "wait"

\* drain(timeout) is called: the deadline is fixed and the first pass made
DrainCall(timeout) ==
    /\ sd.drain.pc = "none"
    /\ ~destroyed
    /\ sd' = [sd EXCEPT !.drain = [pc |-> DrainPass(now + timeout),
                                   deadline |-> now + timeout]]
    /\ UNCHANGED <<now, m_cfg, alive, destroyed, m_buckets, m_waiters,
                   waiter, m_global_waiters, m_total_in_use, m_next_id,
                   healthy, timer, pc, call, leases, issued, ub,
                   m_metrics, hist>>

\* the 100 ms timer of drain completes, within the same tick or a later
\* one, and the next pass is made
DrainWake ==
    /\ sd.drain.pc = "wait"
    /\ ~destroyed
    /\ sd' = [sd EXCEPT !.drain.pc = DrainPass(sd.drain.deadline)]
    /\ UNCHANGED <<now, m_cfg, alive, destroyed, m_buckets, m_waiters,
                   waiter, m_global_waiters, m_total_in_use, m_next_id,
                   healthy, timer, pc, call, leases, issued, ub,
                   m_metrics, hist>>

\* ------------------------------------------------------------------ Next
\* one acquiring coroutine; the other callers use try_acquire
OneTask == {1}

\* the step hands out no id above k
Within(k) == m_next_id' <= k + 1

\* the steps of acquire() in the tasks T, handing out ids up to k
AcquireStep(T, k) ==
    \/ \E t \in T : AcquireRetry(t) /\ Within(k)
    \/ \E t \in T : AcquireEnqueue(t) /\ Within(k)
    \/ \E t \in T : AsyncWait(t)
    \/ \E t \in T : TimerExpire(t)
    \/ \E t \in T : AcquireResume(t)

\* what the holders of leases do
LeaseStep ==
    \/ \E l \in leases : LeaseReset(l)
    \/ \E l \in leases : Release(l)
    \/ \E l \in leases : ReleaseCancel(l)
    \/ \E l \in leases, ok \in BOOLEAN : UseConnection(l, ok)

\* shutdown() (d = FALSE) and ~ConnectionPool() (d = TRUE), called up to k
\* times
ShutdownStep(D, k) ==
    \/ \E d \in D : ShutdownStart(d) /\ sd.count < k
    \/ ShutdownSwap
    \/ ShutdownCancel
    \/ ShutdownClose

\* no acquire() is in progress
Quiet == \A t \in Tasks : pc[t] \in Returned

\* every operation of a pool that is not destroyed, interleaved; failures
\* and successes are reported, and shutdown() runs, between the calls of
\* acquire
Next ==
    \/ Tick
    \/ \E e \in EndpointInputs : TryAcquire(e) /\ Within(FewIds)
    \/ \E t \in OneTask, e \in {E1, E2} :
         Acquire(t, e, 1) /\ Within(FewIds)
    \/ AcquireStep(OneTask, FewIds)
    \/ LeaseStep
    \/ ReportFailure(E1) /\ Failures(E1) < FewFailures /\ Quiet
    \/ ReportSuccess(E1) /\ Quiet
    \/ ShutdownStep({FALSE}, FewShutdowns) /\ Quiet

\* the configurations the pool is constructed with
Configs == {MakeCfg(1, 1), MakeCfg(2, 1)}

Init == \E cfg \in Configs : InitWith(cfg)

\* one connection per endpoint, two in total: the endpoint limit binds
Spec == InitWith(MakeCfg(2, 1)) /\ [][Next]_vars

\* one connection in total: the global limit binds
SpecTotal == InitWith(MakeCfg(1, 1)) /\ [][Next]_vars

\* try_acquire, acquire, leases, shutdown and destruction, without the
\* circuit breaker
NextLife ==
    \/ Tick
    \/ \E e \in EndpointInputs : TryAcquire(e) /\ Within(FewIds)
    \/ \E t \in OneTask, e \in EndpointInputs, to \in Timeouts :
         Acquire(t, e, to) /\ Within(FewIds)
    \/ AcquireStep(OneTask, FewIds)
    \/ \E t \in OneTask : TouchDestroyed(t)
    \/ LeaseStep
    \/ ShutdownStep(BOOLEAN, FewShutdowns)

SpecLife == Init /\ [][NextLife]_vars

\* shutdown() called twice, among try_acquire, acquire and lease drops
NextTwice ==
    \/ Tick
    \/ \E e \in EndpointInputs : TryAcquire(e) /\ Within(FewIds)
    \/ \E t \in OneTask, e \in {E1, E2} :
         Acquire(t, e, 1) /\ Within(FewIds)
    \/ AcquireStep(OneTask, FewIds)
    \/ LeaseStep
    \/ ShutdownStep({FALSE}, MaxShutdowns)

SpecTwice == Init /\ [][NextTwice]_vars

\* the waiter queues: a pool of one connection, every task calls acquire
\* for E1 or E2 with a timeout of one tick and the other callers
\* try_acquire(E1); no shutdown, no circuit breaker
NextWait ==
    \/ Tick
    \/ TryAcquire(E1) /\ Within(FewIds)
    \/ \E t \in Tasks, e \in {E1, E2} : Acquire(t, e, 1) /\ Within(FewIds)
    \/ AcquireStep(Tasks, FewIds)
    \/ LeaseStep

SpecWait == InitWith(MakeCfg(1, 1)) /\ [][NextWait]_vars

\* the circuit breaker: failures and successes are reported for E1, among
\* try_acquire, acquire and lease drops
NextCircuit ==
    \/ Tick
    \/ \E e \in EndpointInputs : TryAcquire(e) /\ Within(FewIds)
    \/ \E t \in OneTask : Acquire(t, E1, 1) /\ Within(FewIds)
    \/ AcquireStep(OneTask, FewIds)
    \/ LeaseStep
    \/ ReportFailure(E1)
    \/ ReportSuccess(E1)

SpecCircuit == InitWith(MakeCfg(2, 1)) /\ [][NextCircuit]_vars

\* callers that take connections and drop them without ever sending a
\* request; every counter is followed
NextFresh ==
    \/ Tick
    \/ \E e \in EndpointInputs : TryAcquire(e) /\ Within(FewIds)
    \/ \E t \in OneTask, e \in EndpointInputs, to \in Timeouts :
         Acquire(t, e, to) /\ Within(FewIds)
    \/ AcquireStep(OneTask, FewIds)
    \/ \E l \in leases : LeaseReset(l)
    \/ \E l \in leases : Release(l)
    \/ \E l \in leases : ReleaseCancel(l)

SpecFresh == InitCounting(MakeCfg(2, 1)) /\ [][NextFresh]_vars

\* the timeouts of callers that do not wait for ever
FiniteTimeouts == {0, 1}

\* one coroutine calls acquire with a finite timeout; the other callers
\* take and drop connections between its calls and leave the pool alone
\* while a call is in progress, so no release claims its waiter
NextTimeout ==
    \/ Tick
    \/ \E e \in EndpointInputs : TryAcquire(e) /\ Within(FewIds) /\ Quiet
    \/ LeaseStep /\ Quiet
    \/ \E t \in OneTask, e \in EndpointInputs, to \in FiniteTimeouts :
         /\ Acquire(t, e, to) /\ Within(FewIds)
         /\ m_metrics.acquire_timeout < MaxCount
    \/ \E t \in OneTask : AcquireEnqueue(t) /\ Within(FewIds)
    \/ \E t \in OneTask : AsyncWait(t)
    \/ \E t \in OneTask : TimerExpire(t)
    \/ \E t \in OneTask : AcquireResume(t)

SpecTimeout == InitCounting(MakeCfg(2, 1)) /\ [][NextTimeout]_vars

\* the outcomes of acquire: one coroutine calls acquire(E1), with and
\* without a timeout, among try_acquire(E1), lease drops and one shutdown
NextOutcome ==
    \/ Tick
    \/ TryAcquire(E1) /\ Within(FewIds)
    \/ \E t \in OneTask, to \in Timeouts : Acquire(t, E1, to) /\ Within(FewIds)
    \/ AcquireStep(OneTask, FewIds)
    \/ LeaseStep
    \/ ShutdownStep({FALSE}, FewShutdowns)

SpecOutcome == InitCounting(MakeCfg(1, 1)) /\ [][NextOutcome]_vars

\* leases are taken with try_acquire, moved from object to object, used
\* and dropped, before and after a shutdown
NextMove ==
    \/ \E e \in EndpointInputs : TryAcquire(e) /\ Within(FewIds)
    \/ \E l \in leases : LeaseReset(l)
    \/ \E l \in leases : Release(l)
    \/ \E l \in leases, ok \in BOOLEAN : UseConnection(l, ok)
    \/ \E src \in leases : MoveConstruct(src)
    \/ \E dst \in leases, src \in leases : MoveAssign(dst, src)
    \/ ShutdownStep({FALSE}, FewShutdowns)

SpecMove == InitWith(MakeCfg(2, 1)) /\ [][NextMove]_vars

\* callers pass endpoints as they have them, normalized or not, to
\* try_acquire, report_failure and report_success
NextRaw ==
    \/ Tick
    \/ \E e \in EndpointInputs : TryAcquire(e) /\ Within(FewIds)
    \/ \E l \in leases : LeaseReset(l)
    \/ \E l \in leases : Release(l)
    \/ \E l \in leases, ok \in BOOLEAN : UseConnection(l, ok)
    \/ \E e \in EndpointInputs :
         ReportFailure(e) /\ Failures(e) < FewFailures
    \/ \E e \in EndpointInputs : ReportSuccess(e)

SpecRaw == InitWith(MakeCfg(2, 1)) /\ [][NextRaw]_vars

\* the circuit breaker on its own: failures and successes are reported for
\* E1 while connections are taken and dropped; its two counters are
\* followed
NextBreaker ==
    \/ Tick
    \/ \E e \in EndpointInputs : TryAcquire(e) /\ Within(FewIds)
    \/ \E l \in leases : LeaseReset(l)
    \/ \E l \in leases : Release(l)
    \/ ReportFailure(E1)
    \/ ReportSuccess(E1)

SpecBreaker == InitPool(MakeCfg(2, 1), BreakerMetrics) /\ [][NextBreaker]_vars

\* connections are taken with try_acquire, used and dropped while the
\* clock advances; the gauges and every counter of the connections are
\* followed
NextGauge ==
    \/ Tick
    \/ \E e \in EndpointInputs : TryAcquire(e) /\ Within(FewIds)
    \/ \E l \in leases : LeaseReset(l)
    \/ \E l \in leases : Release(l)
    \/ \E l \in leases, ok \in BOOLEAN : UseConnection(l, ok)

SpecGauge == InitPool(MakeCfg(2, 1), GaugeMetrics) /\ [][NextGauge]_vars

\* one connection, one task that calls acquire, and shutdown(); the gauges
\* are followed
SpecWaiterGauge ==
    InitPool(MakeCfg(1, 1), GaugeMetrics) /\ [][NextOutcome]_vars

\* one endpoint, one connection: a task calls acquire(E1) while other
\* callers take the connection with try_acquire(E1) and drop it
NextBarge ==
    \/ Tick
    \/ TryAcquire(E1) /\ Within(FewIds)
    \/ \E t \in OneTask, to \in Timeouts :
         Acquire(t, E1, to) /\ Within(FewIds)
    \/ AcquireStep(OneTask, FewIds)
    \/ LeaseStep

SpecBarge == InitWith(MakeCfg(1, 1)) /\ [][NextBarge]_vars

\* the deadline of a call: one connection; a task calls acquire(E1) with a
\* finite timeout once, when the clock starts (time 0), while other
\* callers take the connection with try_acquire(E1) and drop it
NextDeadline ==
    \/ Tick
    \/ TryAcquire(E1) /\ Within(FewIds)
    \/ \E to \in FiniteTimeouts :
         now = 0 /\ pc[1] = "idle" /\ Acquire(1, E1, to)
    \/ AcquireStep(OneTask, FewIds)
    \/ LeaseStep

SpecDeadline == InitWith(MakeCfg(1, 1)) /\ [][NextDeadline]_vars

\* NoMetrics with the counter of the releases that find no bucket or no id
InvalidIdMetrics ==
    [acquire_shutdown |-> 0, acquire_circuit_open |-> 0,
     connection_pruned |-> 0, connection_dropped_reuse_limit |-> 0,
     circuit_breaker_closed |-> 0, release_invalid_id |-> 0]

\* at most k Lease objects made by a move are alive after the step
MovedWithin(k) == Cardinality({l \in leases' : l.obj \in MovedObjs}) <= k

\* the public API on one endpoint: try_acquire, acquire, lease moves and
\* drops while the clock advances; report_failure, report_success,
\* shutdown and, after the shutdown, drain are called while no acquire is
\* in progress
NextApi ==
    \/ Tick
    \/ TryAcquire(E1) /\ Within(FewIds)
    \/ Acquire(1, E1, 1) /\ Within(FewIds)
    \/ AcquireStep(OneTask, FewIds)
    \/ LeaseStep
    \/ \E src \in leases : MoveConstruct(src) /\ MovedWithin(FewObj)
    \/ \E dst \in leases, src \in leases : MoveAssign(dst, src)
    \/ ReportFailure(E1) /\ Failures(E1) < FewFailures /\ Quiet
    \/ ReportSuccess(E1) /\ Quiet
    \/ ShutdownStep({FALSE}, FewShutdowns) /\ Quiet
    \/ DrainCall(1) /\ sd.count = 1 /\ sd.pc = "none" /\ Quiet
    \/ DrainWake /\ Quiet

SpecApi == InitPool(MakeCfg(1, 1), InvalidIdMetrics) /\ [][NextApi]_vars

\* the documented lifecycle: connections are taken and dropped,
\* shutdown() is called once, and when it has returned, drain(1 tick)
NextDrain ==
    \/ Tick
    \/ \E e \in EndpointInputs : TryAcquire(e) /\ Within(FewIds)
    \/ \E l \in leases : LeaseReset(l)
    \/ \E l \in leases : Release(l)
    \/ \E l \in leases, ok \in BOOLEAN : UseConnection(l, ok)
    \/ ShutdownStep({FALSE}, FewShutdowns)
    \/ DrainCall(1) /\ sd.count = 1 /\ sd.pc = "none"
    \/ DrainWake

SpecDrain == InitWith(MakeCfg(2, 1)) /\ [][NextDrain]_vars

\* rotation: one connection that may be reused once and may not outlive the
\* tick it was created in; idle entries never expire
RotationCfg == [MakeCfg(1, 1) EXCEPT !.connection_idle_ttl = 0,
                                     !.max_connection_reuse_count = 1,
                                     !.max_connection_age = 0]

\* connections are taken, used and given back, again and again
NextRotation ==
    \/ Tick
    \/ \E e \in EndpointInputs : TryAcquire(e) /\ Within(MaxId)
    \/ \E t \in OneTask : Acquire(t, E1, 1) /\ Within(MaxId)
    \/ AcquireStep(OneTask, MaxId)
    \/ LeaseStep

SpecRotation == InitWith(RotationCfg) /\ [][NextRotation]_vars

\* no reuse: one connection that may not be reused; idle entries never
\* expire
NoReuseCfg == [MakeCfg(1, 1) EXCEPT !.connection_idle_ttl = 0,
                                    !.max_connection_reuse_count = 0]

\* the configurations under which each way to lose a connection happens:
\* pruned at the idle ttl, dropped at the age limit, dropped at the reuse
\* limit; unhealthy connections are dropped under each
DropConfigs == {MakeCfg(2, 1), RotationCfg, NoReuseCfg}

\* NextGauge under each of them
SpecConserve ==
    /\ \E cfg \in DropConfigs : InitPool(cfg, GaugeMetrics)
    /\ [][NextGauge]_vars

\* the hand-over: a pool of one connection whose idle entries never expire;
\* A takes the connection with try_acquire(E1), uses it and drops it; B
\* calls acquire(E1) once, after A, and keeps the lease it gets; nobody else
\* acquires
HandoverCfg == [MakeCfg(1, 1) EXCEPT !.connection_idle_ttl = 0]

\* the lease of A
LeaseOfA == {l \in leases : l.id = 1}

NextHandover ==
    \/ Tick
    \/ m_next_id = 1 /\ TryAcquire(E1)
    \/ \E to \in Timeouts :
         m_next_id > 1 /\ pc[1] = "idle" /\ Acquire(1, E1, to)
    \/ AcquireStep(OneTask, FewIds)
    \/ \E l \in LeaseOfA : LeaseReset(l)
    \/ \E l \in LeaseOfA : Release(l)
    \/ \E l \in LeaseOfA : ReleaseCancel(l)
    \/ \E l \in LeaseOfA, ok \in BOOLEAN : UseConnection(l, ok)

\* the executor runs every coroutine that is ready and every timer that is
\* due; a thread inside release() runs on to its end
HandoverFairness ==
    /\ WF_vars(AcquireRetry(1))
    /\ WF_vars(AcquireEnqueue(1))
    /\ WF_vars(AsyncWait(1))
    /\ WF_vars(TimerExpire(1))
    /\ WF_vars(AcquireResume(1))
    /\ WF_vars(\E l \in LeaseOfA : Release(l))
    /\ WF_vars(\E l \in LeaseOfA : ReleaseCancel(l))

SpecHandover ==
    InitWith(HandoverCfg) /\ [][NextHandover]_vars /\ HandoverFairness

\* another endpoint: a pool of one connection; A takes it for E1 with
\* try_acquire, uses it and drops it; B calls acquire(E2) once, while A
\* holds the lease; nobody else acquires
NextOther ==
    \/ Tick
    \/ m_next_id = 1 /\ TryAcquire(E1)
    \/ \E to \in Timeouts :
         /\ pc[1] = "idle"
         /\ \E l \in LeaseOfA : l.st = "held"
         /\ Acquire(1, E2, to)
    \/ AcquireStep(OneTask, FewIds)
    \/ \E l \in LeaseOfA : LeaseReset(l)
    \/ \E l \in LeaseOfA : Release(l)
    \/ \E l \in LeaseOfA : ReleaseCancel(l)
    \/ \E l \in LeaseOfA, ok \in BOOLEAN : UseConnection(l, ok)

SpecOther == InitWith(MakeCfg(1, 1)) /\ [][NextOther]_vars

\* shutdown with a waiter: a pool of one connection; A takes the connection
\* with try_acquire(E1) and may drop it; B calls acquire(E1) once, after A;
\* shutdown() is called once
NextStop ==
    \/ Tick
    \/ m_next_id = 1 /\ TryAcquire(E1)
    \/ \E to \in Timeouts :
         m_next_id > 1 /\ pc[1] = "idle" /\ Acquire(1, E1, to)
    \/ AcquireStep(OneTask, FewIds)
    \/ \E l \in LeaseOfA : LeaseReset(l)
    \/ \E l \in LeaseOfA : Release(l)
    \/ \E l \in LeaseOfA : ReleaseCancel(l)
    \/ ShutdownStep({FALSE}, FewShutdowns)

\* the executor runs every coroutine that is ready and every timer that is
\* due; a thread inside release() or shutdown() runs on to its end
StopFairness ==
    /\ WF_vars(AcquireRetry(1))
    /\ WF_vars(AcquireEnqueue(1))
    /\ WF_vars(AsyncWait(1))
    /\ WF_vars(TimerExpire(1))
    /\ WF_vars(AcquireResume(1))
    /\ WF_vars(\E l \in LeaseOfA : Release(l))
    /\ WF_vars(\E l \in LeaseOfA : ReleaseCancel(l))
    /\ WF_vars(ShutdownSwap)
    /\ WF_vars(ShutdownCancel)
    /\ WF_vars(ShutdownClose)

SpecStop == InitWith(MakeCfg(1, 1)) /\ [][NextStop]_vars /\ StopFairness

\* =================================================================
\* Properties
\* =================================================================
\* |in_use| + |idle| of a bucket
BucketSize(b) == Cardinality(b.in_use) + Len(b.idle)

\* the connections the pool owns, summed over the buckets
TotalConns(bk) == SumOver(DOMAIN bk, [e \in DOMAIN bk |-> BucketSize(bk[e])])

\* the leases a step hands out: they carry the id the counter stood at
HandedOut == {l \in leases' : l.id = m_next_id}

\* C1: in every reachable state, for every bucket, the number of in-use
\* connections plus the number of idle connections is at most
\* max_connections_per_endpoint.
C1_EndpointCapacity ==
    \A e \in DOMAIN m_buckets :
        BucketSize(m_buckets[e]) <= m_cfg.max_connections_per_endpoint

\* C1 witness: a bucket is full while the pool as a whole is not, and an
\* acquire on that endpoint waits with reason EndpointCapacity.
C1_Witness ==
    \E e \in DOMAIN m_buckets, t \in Tasks :
        /\ BucketSize(m_buckets[e]) = m_cfg.max_connections_per_endpoint
        /\ TotalConns(m_buckets) < m_cfg.max_total_connections
        /\ pc[t] = "acq_suspended"
        /\ call[t].ep = e
        /\ waiter[t].reason = "EndpointCapacity"

\* the connections of all buckets never exceed max_total_connections
TotalCapacity == TotalConns(m_buckets) <= m_cfg.max_total_connections

\* the endpoint's idle deque, as the call finds it after pruning, holds an
\* entry that passes the health, reuse-count and age checks
HasReusableIdle(bk, ep) ==
    LET pruned == prune_idle_locked(bk, now, m_cfg)
    IN ep \in DOMAIN pruned
       /\ ReuseScan(pruned[ep].idle, healthy, now, m_cfg).found

\* the buckets after the call has pruned the expired idle entries of every
\* bucket and dropped the idle entries of ep that fail the reuse checks
AfterPruneAndDrop(bk, ep) ==
    LET pruned == prune_idle_locked(bk, now, m_cfg)
    IN [e \in DOMAIN pruned |->
          IF e = ep THEN [pruned[e] EXCEPT !.idle = <<>>] ELSE pruned[e]]

\* C2: the sum over all buckets of in-use plus idle connections is at most
\* max_total_connections in every reachable state, and no call hands out a
\* lease on an endpoint without a reusable idle connection when that sum,
\* counted after the call has pruned the expired idle entries and dropped
\* the endpoint's idle entries that cannot be reused, equals
\* max_total_connections.
C2_TotalCapacity ==
    /\ []TotalCapacity
    /\ [][\A l \in HandedOut :
            ~HasReusableIdle(m_buckets, l.endpoint) =>
              TotalConns(AfterPruneAndDrop(m_buckets, l.endpoint))
                < m_cfg.max_total_connections]_vars

\* C2 as stated: the sum is the one the call finds on entry.
C2_AsStated ==
    /\ []TotalCapacity
    /\ [][\A l \in HandedOut :
            ~HasReusableIdle(m_buckets, l.endpoint) =>
              TotalConns(m_buckets) < m_cfg.max_total_connections]_vars

\* C2 witness: the pool is full and an acquire on an endpoint whose bucket
\* is not full waits with reason GlobalCapacity.
C2_Witness ==
    \E t \in Tasks :
        /\ TotalConns(m_buckets) = m_cfg.max_total_connections
        /\ pc[t] = "acq_suspended"
        /\ waiter[t].reason = "GlobalCapacity"
        /\ BucketSize(BucketOf(m_buckets, call[t].ep))
             < m_cfg.max_connections_per_endpoint

\* the sum over all buckets of the size of in_use
TotalInUse(bk) ==
    SumOver(DOMAIN bk, [e \in DOMAIN bk |-> Cardinality(bk[e].in_use)])

\* C3: in every state in which the pool lock is free, the counter
\* total_in_use equals the sum over all buckets of the size of in_use, also
\* after shutdown and after leases are dropped once the pool is shut down.
C3_Accounting == m_total_in_use = TotalInUse(m_buckets)

\* C3 witness: the pool has been shut down with leases outstanding, the
\* leases have been dropped since, and a connection that was handed out
\* before has been released and handed out again.
C3_Witness ==
    /\ ~alive
    /\ sd.count > 0
    /\ leases = {}
    /\ m_total_in_use > 0
    /\ \E e \in DOMAIN m_buckets : \E u \in m_buckets[e].in_use :
         u.id # u.conn

\* C4: in every state in which the pool lock is free, no connection is both
\* in the idle deque of a bucket and in the in_use table of a bucket.
C4_NoDoubleHold == IdleConns(m_buckets) \cap InUseConns(m_buckets) = {}

\* C4 witness: a released connection sits in an idle deque while another
\* connection is in use.
C4_Witness ==
    /\ IdleConns(m_buckets) # {}
    /\ InUseConns(m_buckets) # {}

\* the leases that hold a connection: reset() has not begun, or it has
\* called release(), which has not yet taken the connection back
Holding == {l \in leases : l.st \in {"held", "release"}}

\* C5: each connection is referenced by at most one lease that holds it, a
\* connection held by a lease is in no idle deque, and every id the pool
\* assigns to a lease differs from every id it assigned before.
C5_ExclusiveLoan ==
    /\ \A l1, l2 \in Holding : l1.m_conn = l2.m_conn => l1 = l2
    /\ \A l \in Holding : l.m_conn \notin IdleConns(m_buckets)
    /\ \A i, j \in 1..Len(issued) : i # j => issued[i] # issued[j]

\* C5 witness: a lease holds, under a second id, a connection that the
\* lease which held it first has returned.
C5_Witness ==
    \E l \in Holding :
        /\ l.id # l.m_conn
        /\ Len(issued) > 1

\* the pool fields a call of release() reads or writes
PoolData == <<m_buckets, m_waiters, m_global_waiters, m_total_in_use,
              m_next_id, waiter, timer, healthy, m_metrics>>

\* a lease whose reset() has not begun while the pool is shut down or
\* destroyed
Outstanding(l) == l.st = "held" /\ (~alive \/ destroyed)

\* C10: when the pool has been destroyed or shut down with leases
\* outstanding, get() on each of them yields null and operator bool false,
\* and dropping one of them afterwards neither calls release() nor reads or
\* writes a pool data structure.
C10_InertLeases ==
    /\ [](\A l \in leases :
            Outstanding(l) => Lease_get(l) = NullConn /\ ~Lease_bool(l))
    /\ [][\A l \in leases :
            Outstanding(l) /\ l \notin leases' =>
               /\ \A l2 \in leases' : l2.id # l.id
               /\ UNCHANGED PoolData
               /\ ub' = ub]_vars

\* C10 witness: the pool was destroyed with a lease outstanding, the lease
\* has been dropped since, and its connection is still counted in use; no
\* freed memory was accessed.
C10_Witness ==
    /\ destroyed
    /\ leases = {}
    /\ m_total_in_use > 0
    /\ ~ub

\* the waiters of queue q that exist and are active
ActiveIn(q) == {w \in SeqToSet(q) : waiter[w].mem # "freed" /\ waiter[w].active}

\* the local waiter queue of endpoint ep
LocalQueue(ep) == BucketOf(m_buckets, ep).waiters

\* the step is the locked region of release() for lease l, and the lease is
\* valid: its id is in the in_use table of its endpoint's bucket
ReleaseOf(l) ==
    /\ l.st = "release"
    /\ l \notin leases'
    /\ ~destroyed
    /\ \E u \in BucketOf(m_buckets, l.endpoint).in_use : u.id = l.id

\* release() for lease l leaves the lock with the timer of waiter w captured
Claims(l, w) ==
    /\ ReleaseOf(l)
    /\ [l EXCEPT !.st = "cancel", !.w = w] \in leases'

\* the waiters whose active flag or secondary-queue membership the step
\* changes
Touched ==
    {w \in Tasks :
        \/ waiter'[w] # waiter[w]
        \/ \E e \in DOMAIN m_buckets :
              (w \in SeqToSet(m_buckets[e].waiters))
                 # (w \in SeqToSet(m_buckets'[e].waiters))
        \/ (w \in SeqToSet(m_global_waiters))
              # (w \in SeqToSet(m_global_waiters'))}

\* C7: a release of a valid lease that finds an active waiter in the local
\* queue of its endpoint or in the global queue claims exactly one waiter:
\* it marks that waiter inactive, removes it from its secondary queue and
\* captures its timer, which is then the only timer it cancels; a release
\* that finds no active waiter captures and cancels no timer; no release
\* claims two waiters.
C7_OneWaiterPerRelease ==
    [][/\ \A l \in leases :
            ReleaseOf(l) =>
              LET eligible == ActiveIn(LocalQueue(l.endpoint))
                                \cup ActiveIn(m_global_waiters)
                  claimed == {w \in Tasks : Claims(l, w)}
              IN /\ eligible # {} => Cardinality(claimed) = 1
                 /\ eligible = {} => claimed = {}
                 /\ claimed \subseteq eligible
                 /\ \A w \in claimed :
                       /\ ~waiter'[w].active
                       /\ w \notin SeqToSet(m_global_waiters')
                       /\ \A e \in DOMAIN m_buckets' :
                            w \notin SeqToSet(m_buckets'[e].waiters)
                 /\ \A w \in Touched \ claimed :
                       waiter[w].mem = "freed" \/ ~waiter[w].active
                 /\ timer' = timer
       /\ \A l \in leases :
            l.st = "cancel" /\ (\A l2 \in leases' : l2.id # l.id)
              /\ timer' # timer =>
              /\ l.w # NoTask
              /\ timer' = [timer EXCEPT ![l.w].st = "aborted"]]_vars

\* C8: when a release on endpoint E finds an active waiter in the local
\* queue of E and an active waiter in the global queue, the waiter it claims
\* is from the local queue of E; a waiter of the global queue is claimed
\* only when the local queue of E holds no active waiter.
C8_LocalBeforeGlobal ==
    [][\A l \in leases, w \in Tasks :
          Claims(l, w) =>
            LET loc == ActiveIn(LocalQueue(l.endpoint))
            IN /\ loc # {} /\ ActiveIn(m_global_waiters) # {} => w \in loc
               /\ w \in SeqToSet(m_global_waiters) => loc = {}]_vars

\* C8 witness: a release has claimed the local waiter w1 although the
\* global waiter w2, enqueued before w1, was and still is active.
C8_Witness ==
    \E l \in leases, w1, w2 \in Tasks :
        /\ l.st = "cancel" /\ l.w = w1
        /\ m_waiters = <<w2, w1>>
        /\ waiter[w1].reason = "EndpointCapacity"
        /\ call[w1].ep = l.endpoint
        /\ ~waiter[w1].active
        /\ waiter[w2].reason = "GlobalCapacity"
        /\ waiter[w2].active
        /\ w2 \in SeqToSet(m_global_waiters)

\* where x stands in the sequence s
Pos(s, x) == CHOOSE i \in 1..Len(s) : s[i] = x

\* w1 and w2 are in the same secondary queue and w1 was enqueued first
\* (the primary list keeps the waiters in the order of their enqueue)
QueuedBefore(w1, w2) ==
    /\ w1 # w2
    /\ \/ {w1, w2} \subseteq SeqToSet(m_global_waiters)
       \/ \E e \in DOMAIN m_buckets :
             {w1, w2} \subseteq SeqToSet(m_buckets[e].waiters)
    /\ {w1, w2} \subseteq SeqToSet(m_waiters)
    /\ Pos(m_waiters, w1) < Pos(m_waiters, w2)

\* C9: within the local waiter queue of an endpoint, and within the global
\* waiter queue, releases claim the waiters in the order of their enqueue:
\* no release claims W2 while W1, enqueued before W2 in the same queue, is
\* still active.
C9_QueueOrder ==
    [][\A l \in leases, w2 \in Tasks :
          Claims(l, w2) =>
            \A w1 \in Tasks :
               QueuedBefore(w1, w2) =>
                  waiter[w1].mem = "freed" \/ ~waiter[w1].active]_vars

\* C9 witness: of two active waiters of one queue a release has claimed
\* the one enqueued first; the other is still queued and active.
C9_Witness ==
    \E l \in leases, w1, w2 \in Tasks :
        /\ l.st = "cancel" /\ l.w = w1
        /\ m_waiters = <<w1, w2>>
        /\ waiter[w1].reason = waiter[w2].reason
        /\ call[w1].ep = call[w2].ep
        /\ ~waiter[w1].active
        /\ waiter[w2].active
        /\ pc[w2] = "acq_suspended"

\* the release() of A's lease has run while B was suspended in
\* acquire(E1, timeout) with its timeout not yet expired: it has claimed B
ReleasedToB ==
    /\ \E l \in LeaseOfA : l.st = "cancel" /\ l.w = 1
    /\ pc[1] = "acq_suspended"
    /\ timer[1].st = "pending"
    /\ now < timer[1].expiry

\* C6: in a pool of one connection, once A, holding the only lease on E1,
\* has dropped it while B was suspended in acquire(E1, timeout), B's acquire
\* eventually returns Ok, and its lease is on the connection A released
\* when that connection was healthy (it went to the idle deque).
C6_Handover ==
    /\ ReleasedToB ~> pc[1] = "Ok"
    /\ (ReleasedToB /\ 1 \in IdleConns(m_buckets))
          ~> (pc[1] = "Ok" /\ \E l \in leases : l.id # 1 /\ l.m_conn = 1)

\* C6 witness: B's acquire has returned Ok with a lease on the connection
\* A released.
C6_Witness ==
    /\ pc[1] = "Ok"
    /\ \E l \in leases : l.id = 2 /\ l.m_conn = 1 /\ l.st = "held"

\* ~ConnectionPool() has run its first statement (it may have returned)
DtorStarted == destroyed \/ (sd.dtor /\ sd.pc # "none")

\* the step is release(), called back by the reset() of lease l
ReleaseCall(l) == l.st = "release" /\ l \notin leases'

\* C11: however a lease drop on one thread interleaves with the destruction
\* of the pool on another, also when the lease reads alive == true before
\* the destructor stores false, release() is not executed on the pool (and
\* so no pool field is touched through the lease's callback) once the
\* destructor has started.
C11_NoReleaseOnceDestructing ==
    [][\A l \in leases : ReleaseCall(l) => ~DtorStarted]_vars

\* what try_acquire(e) yields in the current state
TryAcquireNow(e) ==
    try_acquire_locked(PoolNow, normalize_endpoint(e), now, m_cfg)

\* the result of a call that hands out nothing and leaves every pool field
\* and every counter as it is
Untouched ==
    [lease |-> NoLease, bk |-> m_buckets, tiu |-> m_total_in_use,
     nid |-> m_next_id, metrics |-> m_metrics]

\* task t calls acquire() in this step
AcquireCalled(t) == pc[t] \in Returned /\ pc'[t] # pc[t]

\* C12: once shutdown() has stored alive = false, every try_acquire returns
\* None, leaving the buckets and the counters untouched, every acquire call
\* made from then on returns Shutdown, counted once in acquire_shutdown,
\* without enqueuing a waiter and without creating, reusing, pruning or
\* dropping a connection, and no call that reads alive from then on hands
\* out a lease.
C12_ShutdownIsFinal ==
    /\ [](~alive => \A e \in EndpointInputs : TryAcquireNow(e) = Untouched)
    /\ [][~alive =>
            /\ HandedOut = {}
            /\ m_next_id' = m_next_id
            /\ \A t \in Tasks :
                 AcquireCalled(t) =>
                   /\ pc'[t] = "Shutdown"
                   /\ m_metrics' =
                        [m_metrics EXCEPT !.acquire_shutdown = @ + 1]
                   /\ UNCHANGED <<m_buckets, m_waiters, m_global_waiters,
                                  waiter, m_total_in_use, healthy>>]_vars

\* C12 witness: after shutdown() an acquire call has returned Shutdown and
\* was counted, while an idle entry past its TTL is still in its bucket.
C12_Witness ==
    /\ ~alive /\ ~destroyed
    /\ sd.count > 0
    /\ \E t \in Tasks : pc[t] = "Shutdown"
    /\ m_metrics.acquire_shutdown = 1
    /\ \E e \in DOMAIN m_buckets :
         /\ m_buckets[e].idle # <<>>
         /\ now - Head(m_buckets[e].idle).last_used
               >= m_cfg.connection_idle_ttl

\* the step belongs to a call of shutdown() made after an earlier call has
\* returned
SecondShutdownStep == sd.count >= 1 /\ ~sd.dtor /\ sd' # sd

\* C13: shutdown() is idempotent: in every reachable state, a second call
\* of shutdown() leaves the buckets with their idle and in_use tables, the
\* waiter registry and the waiter queues, total_in_use and the alive flag
\* as the first call left them.
C13_ShutdownIdempotent ==
    [][SecondShutdownStep =>
          UNCHANGED <<m_buckets, m_waiters, m_global_waiters, waiter,
                      m_total_in_use, alive>>]_vars

\* C13 witness: shutdown() has returned twice on a pool that holds an idle
\* and an in-use connection.
C13_Witness ==
    /\ sd.count = 2 /\ sd.pc = "none"
    /\ IdleConns(m_buckets) # {}
    /\ InUseConns(m_buckets) # {}

\* B's acquire has enqueued its waiter, and shutdown() has stored
\* alive = false and is about to swap the waiter registry
EnqueuedAtShutdown ==
    /\ sd.pc = "swap"
    /\ pc[1] \in {"acq_unlocked", "acq_suspended"}
    /\ waiter[1].mem = "list"

\* C14: an acquire call that has enqueued a waiter when shutdown() runs
\* eventually resumes and returns the Shutdown error, whatever its timeout
\* (the infinite one included): it does not stay suspended forever.
C14_WaitersEndAtShutdown ==
    /\ EnqueuedAtShutdown ~> pc[1] \in Returned
    /\ EnqueuedAtShutdown ~> pc[1] = "Shutdown"

\* C14 witness: B's acquire, suspended with the infinite timeout when
\* shutdown() ran, has returned Shutdown.
C14_Witness ==
    /\ sd.count = 1
    /\ pc[1] = "Shutdown"
    /\ m_metrics.acquire_shutdown = 1
    /\ waiter[1].mem = "freed"

\* the failures reported for endpoint ep reached the threshold, and
\* circuit_breaker_timeout has not elapsed since that failure
InOpenWindow(ep) ==
    /\ ep \in DOMAIN hist.opened
    /\ now < hist.opened[ep] + m_cfg.circuit_breaker_timeout

\* the same, and circuit_breaker_timeout has elapsed since
AfterOpenWindow(ep) ==
    /\ ep \in DOMAIN hist.opened
    /\ now >= hist.opened[ep] + m_cfg.circuit_breaker_timeout

\* the buckets as they would be had no failure been reported
NeverFailed(bk) ==
    [x \in DOMAIN bk |-> [bk[x] EXCEPT !.consecutive_failures = 0,
                                       !.circuit_open_until = 0]]

\* capacity permits: but for the circuit breaker, try_acquire(e) hands out
\* a lease
CapacityPermits(e) ==
    try_acquire_locked([PoolNow EXCEPT !.bk = NeverFailed(m_buckets)],
                       normalize_endpoint(e), now, m_cfg).lease # NoLease

\* C15: once circuit_breaker_failure_threshold consecutive failures have
\* been reported for an endpoint, every try_acquire on it returns None,
\* idle connections and free capacity notwithstanding, until
\* circuit_breaker_timeout has elapsed since the failure that reached the
\* threshold; from then on try_acquire succeeds when capacity permits.
C15_Breaker ==
    \A e \in EndpointInputs :
       LET ep == normalize_endpoint(e) IN
       /\ InOpenWindow(ep) => TryAcquireNow(e).lease = NoLease
       /\ AfterOpenWindow(ep) /\ CapacityPermits(e) =>
             TryAcquireNow(e).lease # NoLease

\* C15 witness: the circuit of E1 was opened, its timeout has elapsed, and
\* a try_acquire on E1 has handed out the connection that sat idle while
\* the circuit was open.
C15_Witness ==
    /\ AfterOpenWindow(E1)
    /\ \E l \in leases : l.endpoint = E1 /\ l.id # l.m_conn /\ l.st = "held"

\* the pool fields report_success does not write
BesidesBuckets == <<alive, destroyed, m_waiters, m_global_waiters, waiter,
                    m_total_in_use, m_next_id, healthy, timer, leases>>

\* the step resets the consecutive failures of the bucket of e
FailuresReset(e) ==
    /\ e \in DOMAIN m_buckets
    /\ m_buckets'[e].consecutive_failures < m_buckets[e].consecutive_failures

\* C16: for a bucket with consecutive_failures > 0, report_success sets
\* consecutive_failures to 0 and raises circuit_breaker_closed by exactly
\* one, changing nothing else; for an endpoint whose bucket has
\* consecutive_failures = 0, or that has no bucket, it changes no pool
\* state and no metric.
C16_ReportSuccess ==
    /\ [](\A e \in EndpointInputs :
           LET bk2 == report_connection_success(m_buckets, e)
               m2 == report_connection_success_metrics(m_buckets, e,
                                                       m_metrics)
           IN IF e \in DOMAIN m_buckets
                 /\ m_buckets[e].consecutive_failures > 0
              THEN /\ bk2 = [m_buckets EXCEPT ![e].consecutive_failures = 0]
                   /\ m2 = [m_metrics EXCEPT !.circuit_breaker_closed = @ + 1]
              ELSE bk2 = m_buckets /\ m2 = m_metrics)
    /\ [][/\ \A e \in EndpointInputs :
              FailuresReset(e) =>
                /\ m_buckets' = [m_buckets EXCEPT
                                   ![e].consecutive_failures = 0]
                /\ m_metrics' = [m_metrics EXCEPT
                                   !.circuit_breaker_closed = @ + 1]
                /\ UNCHANGED BesidesBuckets
          /\ m_metrics'.circuit_breaker_closed
                # m_metrics.circuit_breaker_closed =>
                \E e \in EndpointInputs : FailuresReset(e)]_vars

\* C16 witness: report_success has reset the failures of E1 and was counted
\* once, while the circuit of E1 is still open.
C16_Witness ==
    /\ m_metrics.circuit_breaker_closed = 1
    /\ E1 \in DOMAIN m_buckets
    /\ m_buckets[E1].consecutive_failures = 0
    /\ is_circuit_open(m_buckets[E1], now)

\* the circuit of the bucket of ep is open at the present time
CircuitOpenNow(ep) == is_circuit_open(BucketOf(m_buckets, ep), now)

\* acquire() of task t has not returned: it is on its waiting path, for the
\* endpoint call[t].ep
InAcquire(t) == pc[t] \notin Returned

\* C17: a call to acquire on an endpoint whose circuit is open returns a
\* CircuitOpen error, counted in acquire_circuit_open, and does not go on to
\* wait: a call that has not returned was not made on an open circuit, and
\* acquire_circuit_open counts every call made on an open circuit.
C17_CircuitOpenReturned ==
    [][\A t \in Tasks :
         AcquireCalled(t) =>
           /\ InAcquire(t)' => ~CircuitOpenNow(call'[t].ep)
           /\ pc'[t] = "CircuitOpen" <=>
                m_metrics'.acquire_circuit_open
                  = m_metrics.acquire_circuit_open + 1]_vars

\* C17 witness: a call to acquire(E1) made while the circuit of E1 was open
\* is suspended on its waiter, the circuit still open, and
\* acquire_circuit_open has counted nothing.
C17_Witness ==
    \E t \in Tasks :
      /\ pc[t] = "acq_suspended"
      /\ call[t].ep = E1
      /\ waiter[t].active
      /\ t \in SeqToSet(m_waiters)
      /\ CircuitOpenNow(E1)
      /\ E1 \in DOMAIN hist.opened
      /\ m_buckets[E1].in_use = {}
      /\ m_metrics.acquire_circuit_open = 0

\* the connections the buckets own, with the time each was created and the
\* hand-outs from an idle deque each has had since
Known == DOMAIN hist.conn

\* C18: counting from its creation, a connection is handed out from the
\* idle deque at most max_connection_reuse_count times.
C18_ReuseLimit ==
    \A c \in Known : hist.conn[c].reuses <= m_cfg.max_connection_reuse_count

\* C18 witness: a lease holds a connection that has come out of the idle
\* deque more often than max_connection_reuse_count, and no entry was ever
\* dropped for its reuse count.
C18_Witness ==
    \E l \in leases :
      /\ l.st = "held"
      /\ l.m_conn \in Known
      /\ hist.conn[l.m_conn].reuses > m_cfg.max_connection_reuse_count
      /\ m_metrics.connection_dropped_reuse_limit = 0

\* C19: no connection is handed out later than max_connection_age after it
\* was created, however often it was released and reused in between.
C19_AgeLimit ==
    [][\A l \in HandedOut :
         now - hist'.conn[l.m_conn].born <= m_cfg.max_connection_age]_vars

\* C19 witness: a lease was handed out for a connection older than
\* max_connection_age at the time of the hand-out (the last id issued is
\* the lease's, and time has not moved since).
C19_Witness ==
    \E l \in leases :
      /\ l.st = "held"
      /\ l.id + 1 = m_next_id
      /\ l.m_conn \in Known
      /\ hist.conn[l.m_conn].reuses > 0
      /\ now - hist.conn[l.m_conn].born > m_cfg.max_connection_age

\* the idle entries of bk, as <<endpoint, position>>, that have expired at
\* time t
Expired(bk, t, ttl) ==
    {x \in UNION {{<<e, i>> : i \in 1..Len(bk[e].idle)} : e \in DOMAIN bk} :
       t - bk[x[1]].idle[x[2]].last_used >= ttl}

\* the step is an attempt of try_acquire or acquire to take a connection:
\* one call of try_acquire_locked
AcquireAttempt ==
    \/ \E e \in EndpointInputs : TryAcquire(e)
    \/ \E t \in Tasks, e \in EndpointInputs, to \in Timeouts :
         Acquire(t, e, to)
    \/ \E t \in Tasks : AcquireRetry(t)
    \/ \E t \in Tasks : AcquireEnqueue(t)

\* C20: with connection_idle_ttl > 0 and the pool alive, right after an
\* attempt of try_acquire or acquire at time t, on any endpoint, no bucket
\* holds an idle entry with t - last_used >= connection_idle_ttl, and
\* connection_pruned has grown by the number of entries that had expired.
C20_PruneOnAcquire ==
    /\ [](m_cfg.connection_idle_ttl > 0 /\ alive =>
           \A e \in EndpointInputs :
             LET r == TryAcquireNow(e) IN
               /\ Expired(r.bk, now, m_cfg.connection_idle_ttl) = {}
               /\ r.metrics.connection_pruned
                    = m_metrics.connection_pruned
                      + Cardinality(Expired(m_buckets, now,
                                            m_cfg.connection_idle_ttl)))
    /\ [][m_cfg.connection_idle_ttl > 0 /\ alive /\ AcquireAttempt =>
           /\ Expired(m_buckets', now, m_cfg.connection_idle_ttl) = {}
           /\ m_metrics'.connection_pruned
                = m_metrics.connection_pruned
                  + Cardinality(Expired(m_buckets, now,
                                        m_cfg.connection_idle_ttl))]_vars

\* C20 witness: the idle entry of E1 expired and a later attempt on E2
\* removed it: it was counted, the bucket of E1 is empty, and the attempt
\* created the connection of E2.
C20_Witness ==
    /\ alive
    /\ m_metrics.connection_pruned = 1
    /\ E1 \in DOMAIN m_buckets
    /\ m_buckets[E1].idle = <<>>
    /\ m_buckets[E1].in_use = {}
    /\ E2 \in DOMAIN m_buckets
    /\ \E u \in m_buckets[E2].in_use : u.id = 2 /\ u.conn = 2
    /\ E2 \notin DOMAIN hist.opened
    /\ now = 1

\* the pool has seen try_acquire(ep) once, at time 0, and the lease was
\* dropped; nothing else was called
TakenAndDropped(ep) ==
    /\ now = 0
    /\ DOMAIN m_buckets = {ep}
    /\ m_next_id = 2
    /\ leases = {}
    /\ \A t \in Tasks : pc[t] = "idle"
    /\ m_metrics.acquire_success = 0
    /\ m_metrics.connection_created = 1

\* C21: on a fresh pool, try_acquire(E), dropping the lease and
\* try_acquire(E) again, before the idle TTL and with nothing in between,
\* hands out the same connection the second time, with
\* connection_created = 1 and connection_reused = 1.
C21_ReuseAfterDrop ==
    [][\A ep \in {normalize_endpoint(e) : e \in EndpointInputs} :
         \A l \in HandedOut :
           TakenAndDropped(ep) /\ l.endpoint = ep /\ pc' = pc =>
             /\ l.m_conn = 1
             /\ m_metrics'.connection_created = 1
             /\ m_metrics'.connection_reused = 1]_vars

\* C21 witness: the second try_acquire(E1) has handed out a connection made
\* anew: two connections were created and none was reused.
C21_Witness ==
    /\ now = 0
    /\ DOMAIN m_buckets = {E1}
    /\ m_next_id = 3
    /\ \A t \in Tasks : pc[t] = "idle"
    /\ m_metrics.acquire_success = 0
    /\ \E l \in leases : l.id = 2 /\ l.m_conn = 2 /\ l.st = "held"
    /\ Cardinality(leases) = 1
    /\ m_metrics.connection_created = 2
    /\ m_metrics.connection_reused = 0

\* the endpoints buckets are kept for
NormEndpoints == {normalize_endpoint(e) : e \in EndpointInputs}

\* the step starts or continues the acquire() call of task t and hands it
\* no lease
CallStepWithoutLease(t) ==
    (AcquireCalled(t) \/ InAcquire(t)) /\ pc'[t] # "Ok"

\* the entries of an idle deque that have not expired at time t
Kept(idle, t, ttl) ==
    IF ttl <= 0 THEN idle
    ELSE SelectSeq(idle, LAMBDA x : t - x.last_used < ttl)

\* the acquire() of t comes back from its wait with Timeout, at or after
\* the expiry of its timer, counted once in acquire_timeout, its waiter in
\* neither the registry nor a secondary queue
ReturnsTimeout(t) ==
    pc[t] = "acq_suspended" /\ pc'[t] \in Returned =>
      /\ pc'[t] = "Timeout"
      /\ now >= timer[t].expiry
      /\ m_metrics'.acquire_timeout = m_metrics.acquire_timeout + 1
      /\ t \notin SeqToSet(m_waiters')
      /\ t \notin QueuedWaiters(m_buckets', m_global_waiters')
      /\ waiter'[t] = NoWaiter

\* a step of a call that gets no lease leaves in_use and total_in_use alone
LeavesInUse(t) ==
    CallStepWithoutLease(t) =>
      /\ m_total_in_use' = m_total_in_use
      /\ \A ep \in NormEndpoints :
           BucketOf(m_buckets', ep).in_use = BucketOf(m_buckets, ep).in_use

\* ... and every idle deque as well
LeavesIdle(t) ==
    CallStepWithoutLease(t) =>
      \A ep \in NormEndpoints :
        BucketOf(m_buckets', ep).idle = BucketOf(m_buckets, ep).idle

\* ... or takes from the idle deques the entries that had expired, and
\* nothing else, counting them in connection_pruned
LeavesIdleButExpired(t) ==
    CallStepWithoutLease(t) =>
      /\ \A ep \in NormEndpoints :
           BucketOf(m_buckets', ep).idle
             \in {BucketOf(m_buckets, ep).idle,
                  Kept(BucketOf(m_buckets, ep).idle, now,
                       m_cfg.connection_idle_ttl)}
      /\ m_metrics'.connection_pruned
           = m_metrics.connection_pruned
             + total_idle_locked(m_buckets) - total_idle_locked(m_buckets')

\* C22 (as amended): an acquire with a finite timeout that finds no
\* capacity and is claimed by no release returns Timeout when its timer
\* has expired, counted in acquire_timeout; when it returns its waiter is
\* in no queue, in_use and total_in_use are as before the call, and idle
\* is as before the call but for the expired entries the call pruned.
C22_TimeoutLeavesPool ==
    [][\A t \in Tasks :
         ReturnsTimeout(t) /\ LeavesInUse(t) /\ LeavesIdleButExpired(t)]_vars

\* C22 (as stated): ... and idle is exactly as before the call.
C22_AsStated ==
    [][\A t \in Tasks :
         ReturnsTimeout(t) /\ LeavesInUse(t) /\ LeavesIdle(t)]_vars

\* C22 witness: acquire(E1) with timeout 0 was called at time 1 while E1
\* was in use and the idle entry of E2 had expired; it has returned
\* Timeout, with the entry of E2 pruned.
C22_Witness ==
    /\ pc[1] = "Timeout"
    /\ now = 1
    /\ m_metrics.acquire_timeout = 1
    /\ m_metrics.connection_pruned = 1
    /\ m_waiters = <<>>
    /\ E1 \in DOMAIN m_buckets /\ E2 \in DOMAIN m_buckets
    /\ m_buckets[E1].in_use # {}
    /\ m_buckets[E2].idle = <<>> /\ m_buckets[E2].in_use = {}
    /\ m_total_in_use = 1

\* the step is one of the acquire() call of task t for the endpoint ep
\* (normalized)
AcquireOn(t, ep) ==
    \/ \E e \in EndpointInputs, to \in Timeouts \cup FiniteTimeouts :
         normalize_endpoint(e) = ep /\ Acquire(t, e, to)
    \/ /\ call[t].ep = ep
       /\ AcquireRetry(t) \/ AcquireEnqueue(t) \/ AcquireResume(t)

\* the counter of each outcome of acquire
OutcomeCounter ==
    [Ok |-> "acquire_success", Timeout |-> "acquire_timeout",
     Shutdown |-> "acquire_shutdown",
     InternalError |-> "acquire_internal_error"]

Outcomes == DOMAIN OutcomeCounter

\* the four outcome counters
OutcomeCounts(m) == [o \in Outcomes |-> m[OutcomeCounter[o]]]

Holds(l) == l.m_conn # NullConn

\* the Lease object named o, after the step
ObjAfter(o) == {l \in leases' : l.obj = o}

\* the step moves the lease src into another Lease object
MovedFrom(src) ==
    MoveConstruct(src) \/ \E dst \in leases : MoveAssign(dst, src)

\* C24: moving a lease, by construction or by assignment, any number of
\* times, hands the connection to the destination and leaves the source
\* inert (get() is null, dropping it calls nothing); move-assigning onto a
\* lease that holds a connection first resets it as a drop does (the
\* connection is released to a pool that is alive, and no Lease object
\* holds it afterwards); so no two Lease objects hold the same hand-out,
\* every holder's hand-out is still in in_use (it has not been released
\* before), and a release always finds its entry.
C24_MoveKeepsOneOwner ==
    /\ [](\A l1 \in leases, l2 \in leases :
           Holds(l1) /\ Holds(l2) /\ l1.obj # l2.obj =>
             l1.id # l2.id /\ l1.m_conn # l2.m_conn)
    /\ [](\A l \in leases :
           Holds(l) /\ l.st \in {"held", "release"} =>
             [id |-> l.id, conn |-> l.m_conn]
               \in BucketOf(m_buckets, l.endpoint).in_use)
    /\ [][\A src \in leases :
           MovedFrom(src) =>
             /\ \E d \in leases' :
                  /\ d.obj # src.obj
                  /\ d.m_conn = src.m_conn /\ d.id = src.id
                  /\ d.endpoint = src.endpoint /\ d.st = "held"
             /\ \A s \in ObjAfter(src.obj) :
                  /\ Lease_get(s) = NullConn
                  /\ ~ResetCallsPool(s, alive', destroyed')
             /\ ObjAfter(src.obj) # {}]_vars
    /\ [][\A dst \in leases, src \in leases :
           MoveAssign(dst, src) /\ Holds(dst) =>
             /\ ResetCallsPool(dst, alive, destroyed) =>
                  /\ [id |-> dst.id, conn |-> dst.m_conn]
                       \notin BucketOf(m_buckets', dst.endpoint).in_use
                  /\ m_total_in_use' = m_total_in_use - 1
             /\ \A l \in leases' : l.id # dst.id]_vars
    /\ [][\A l \in leases :
           Release(l) => m_total_in_use' = m_total_in_use - 1]_vars

\* C24 witness: a lease was moved twice and another lease was move-assigned
\* over: the object made by the second hand-out is inert, a third object
\* holds that hand-out, and the first hand-out is back in the pool.
C24_Witness ==
    /\ \E l \in leases : l.obj = 2 /\ ~Holds(l)
    /\ \E l \in leases : l.obj \in MovedObjs /\ l.id = 2 /\ Holds(l)
    /\ \E l \in leases : l.obj = 1 /\ ~Holds(l)
    /\ m_total_in_use = 1
    /\ \E ep \in DOMAIN m_buckets : Len(m_buckets[ep].idle) = 1
    /\ alive

\* circuit_breaker_failure_threshold failures in a row were reported with
\* the endpoint e, and circuit_breaker_timeout has not elapsed since
OpenedBy(e) ==
    /\ e \in DOMAIN hist.opened
    /\ now < hist.opened[e] + m_cfg.circuit_breaker_timeout

\* C25: try_acquire, acquire, report_failure and report_success normalize
\* the endpoint first: every bucket is kept under a normalized endpoint, and
\* failures reported with e open the circuit that try_acquire(e') sees
\* whenever normalize(e) = normalize(e').
C25_ReportsNormalize ==
    /\ DOMAIN m_buckets \subseteq NormEndpoints
    /\ \A e \in EndpointInputs, f \in EndpointInputs :
         OpenedBy(e) /\ normalize_endpoint(e) = normalize_endpoint(f) =>
           TryAcquireNow(f).lease = NoLease

\* C25 witness: the failures reported with the endpoint E1raw have opened a
\* circuit, and a try_acquire(E1) made in the open window has handed out a
\* new connection.
C25_Witness ==
    /\ OpenedBy(E1raw)
    /\ E1raw \in DOMAIN m_buckets
    /\ is_circuit_open(m_buckets[E1raw], now)
    /\ \E l \in leases :
         /\ l.endpoint = E1 /\ l.st = "held"
         /\ l.m_conn \in Known
         /\ hist.conn[l.m_conn].born >= hist.opened[E1raw]
         /\ hist.conn[l.m_conn].reuses = 0

\* drain() makes a pass of its loop in this step: at the call, or at a
\* wake that ends the wait
DrainPasses ==
    \/ sd.drain.pc = "none" /\ sd'.drain.pc # "none"
    \/ sd.drain.pc = "wait" /\ sd'.drain.pc # "wait"

\* C26: after shutdown(), drain(timeout) waits for the connections in use
\* to be returned: a pass of its loop made before the deadline, with every
\* lease dropped, returns true; it returns false only if some lease is
\* still held at the deadline.
C26_DrainAfterShutdown ==
    [][DrainPasses =>
         /\ now < sd'.drain.deadline /\ leases = {}
              => sd'.drain.pc = "true"
         /\ sd'.drain.pc = "false" => leases # {}]_vars

\* C26 witness: shutdown() has returned, every lease was dropped, nothing
\* is held, and drain() has returned false at its deadline with
\* m_total_in_use still 1.
C26_Witness ==
    /\ sd.count = 1
    /\ sd.drain.pc = "false"
    /\ leases = {}
    /\ m_total_in_use = 1
    /\ now >= sd.drain.deadline

\* task t has a waiter in the primary registry or a pointer to it in a
\* secondary queue
Enqueued(t) ==
    \/ t \in SeqToSet(m_waiters)
    \/ t \in QueuedWaiters(m_buckets, m_global_waiters)

\* try_acquire for the endpoint of the call of task t would hand out a
\* lease now
Obtainable(t) ==
    /\ alive
    /\ try_acquire_locked(PoolNow, call[t].ep, now, m_cfg).lease # NoLease

\* C27: an acquire call that leaves the locked region of the slow path with
\* its waiter enqueued, to suspend, leaves a pool in which try_acquire for
\* its endpoint yields nothing; when the pool can serve the endpoint at the
\* enqueue (a release completed after the failed fast path), the call
\* returns the lease and its waiter is in no queue.
C27_LostWakeupClose ==
    [][\A t \in Tasks :
         pc[t] = "acq_lock" /\ pc'[t] # "acq_lock" =>
           /\ pc'[t] = "acq_unlocked" => Enqueued(t)' /\ ~Obtainable(t)'
           /\ Obtainable(t) =>
                 /\ pc'[t] = "Ok"
                 /\ ~Enqueued(t)'
                 /\ \E l \in leases' \ leases : l.st = "held"]_vars

\* C27 witness: a task is between its failed fast path and the enqueue,
\* and a release has completed since: the connection it was refused is
\* idle, and the re-check under the lock will take it.
C27_Witness ==
    \E t \in Tasks :
       /\ pc[t] = "acq_lock"
       /\ Obtainable(t)
       /\ \E e \in DOMAIN m_buckets : m_buckets[e].idle # <<>>
       /\ m_total_in_use = 0

\* task t wakes from its wait in this step: the cleanup and the branch on
\* errc
Wakes(t) == pc[t] = "acq_suspended" /\ pc'[t] # "acq_suspended"

\* a release has claimed the waiter of task t: popped from its queue,
\* active cleared
Claimed(t) == waiter[t].mem = "list" /\ ~waiter[t].active

\* C28: a waiter is resolved by exactly one of timeout and release-wake: a
\* waiter a release has claimed retries the fast path when it wakes and
\* does not return Timeout, and a waiter that returns Timeout was still
\* active when it woke, also when the expiry races with the release.
C28_OneResolution ==
    [][\A t \in Tasks :
         Wakes(t) =>
           /\ Claimed(t) => pc'[t] = "acq_retry"
           /\ pc'[t] = "Timeout" => waiter[t].active]_vars

\* C28 witness: the timer of a suspended waiter has expired, and before the
\* waiter resumed a release claimed it for the connection it gave back.
C28_Witness ==
    \E t \in Tasks :
       /\ pc[t] = "acq_suspended"
       /\ timer[t].st = "fired"
       /\ Claimed(t)
       /\ m_total_in_use = 0

\* the acquire of task t has enqueued its waiter and not yet resumed
Waiting(t) == pc[t] \in {"acq_unlocked", "acq_suspended"}

\* timer->cancel() has been called on the timer of the waiting task t: by
\* the release() that claimed its waiter, after the lock, or by shutdown()
\* in its loop over to_cancel
CancelCalled(t) ==
    /\ Waiting(t)
    /\ \/ /\ Claimed(t)
          /\ ~\E l \in leases : l.st = "cancel" /\ l.w = t
       \/ /\ waiter[t].mem \in {"to_cancel", "freed"}
          /\ sd.pc \in {"close", "none"}

\* C29: once release() or shutdown() has claimed a waiter and called cancel
\* on its timer outside the lock, the acquire of that waiter eventually
\* resumes with operation_aborted and goes back to the top of its loop,
\* also when the cancel ran before the async_wait started and when the
\* timeout is infinite.
C29_CancelWakes == CancelCalled(1) ~> pc[1] = "acq_retry"

\* C29 witness: the waiter, suspended with the infinite timeout, was
\* claimed and its timer cancelled: the wait has ended with
\* operation_aborted and the acquire is back at the top of its loop.
C29_Witness ==
    /\ pc[1] = "acq_retry"
    /\ call[1].timeout = Inf
    /\ timer[1].st = "none"

\* the Waiter of task t is an entry of the primary registry m_waiters
InRegistry(t) == waiter[t].mem = "list" /\ t \in SeqToSet(m_waiters)

\* C30: the entry of a waiter in the primary registry is removed only by
\* the acquire call that owns it: while that call is between its enqueue
\* and its wake-up the entry is in m_waiters, and every pointer held in a
\* local queue or in the global queue refers to a live entry of the
\* registry, also across shutdown() and the destruction of the pool.
C30_RegistryOwnsWaiters ==
    /\ \A t \in Tasks : Waiting(t) => InRegistry(t)
    /\ \A w \in QueuedWaiters(m_buckets, m_global_waiters) : InRegistry(w)

\* C30 witness: shutdown() has returned while an acquire was suspended: the
\* Waiter of that call was swapped out of the registry and freed with
\* to_cancel, and the local queue of its bucket still holds the pointer.
C30_Witness ==
    \E t \in Tasks :
       /\ sd.count = 1 /\ sd.pc = "none" /\ ~destroyed
       /\ pc[t] = "acq_suspended"
       /\ waiter[t].mem = "freed"
       /\ m_waiters = <<>>
       /\ \E e \in DOMAIN m_buckets : t \in SeqToSet(m_buckets[e].waiters)

\* C31: report_failure opens the circuit exactly when consecutive_failures
\* reaches circuit_breaker_failure_threshold: the call that makes the count
\* equal to the threshold sets circuit_open_until and raises
\* circuit_breaker_opened, and no other call does: a failure reported
\* beyond the threshold leaves both as they are.
C31_OpensAtThreshold ==
    [][ReportFailure(E1) =>
         IF Failures(E1)' = m_cfg.circuit_breaker_failure_threshold
         THEN /\ m_buckets'[E1].circuit_open_until
                    = now + m_cfg.circuit_breaker_timeout
              /\ m_metrics'.circuit_breaker_opened
                    = m_metrics.circuit_breaker_opened + 1
         ELSE /\ m_buckets'[E1].circuit_open_until
                    = BucketOf(m_buckets, E1).circuit_open_until
              /\ m_metrics'.circuit_breaker_opened
                    = m_metrics.circuit_breaker_opened]_vars

\* C31 witness: a failure was reported beyond the threshold, one tick after
\* the circuit opened: the end of the open window has moved and
\* circuit_breaker_opened says 2.
C31_Witness ==
    /\ Failures(E1) = m_cfg.circuit_breaker_failure_threshold + 1
    /\ hist.opened[E1] = 0
    /\ m_buckets[E1].circuit_open_until = 1 + m_cfg.circuit_breaker_timeout
    /\ m_metrics.circuit_breaker_opened = 2

\* C32: whenever the pool lock is free, the gauge total_idle equals the sum
\* over the buckets of the size of idle, after any sequence of acquires,
\* releases, prunings and drops of idle entries.
C32_TotalIdleGauge == m_metrics.total_idle = total_idle_locked(m_buckets)

\* C32 witness: the only idle entry was pruned by a try_acquire: no bucket
\* holds an idle entry and the gauge still says 1.
C32_Witness ==
    /\ m_metrics.connection_pruned = 1
    /\ total_idle_locked(m_buckets) = 0
    /\ m_metrics.total_idle = 1

\* the waiters that are enqueued in the registry and still active
ActiveWaiters == {t \in Tasks : InRegistry(t) /\ waiter[t].active}

\* C33: whenever the pool lock is free, the gauge waiters_total equals the
\* number of waiters that are enqueued and still active: it is lowered
\* once per waiter, by the release that claims it or by its owner, and
\* does not drop below zero, also when shutdown() resets it while waiters
\* are suspended.
C33_WaitersGauge == m_metrics.waiters_total = Cardinality(ActiveWaiters)

\* C33 witness: shutdown() has stored 0 in the gauge while a waiter was
\* suspended; the waiter has woken and lowered the gauge once more: the
\* unsigned gauge has wrapped below zero.
C33_Witness ==
    /\ sd.count = 1
    /\ ActiveWaiters = {}
    /\ pc[1] \in Returned
    /\ m_metrics.waiters_total = 2 ^ SizeBits - 1

\* a release has woken task t and t has not yet made its retry: its waiter
\* is claimed (and its wait did not time out), or it is at the `continue`
Woken(t) ==
    \/ Waiting(t) /\ Claimed(t) /\ timer[t].st # "fired"
    \/ pc[t] = "acq_retry"

\* a lease is handed out in this step
HandsOut == \E l \in leases' : l.st = "held" /\ l.id \notin {k.id : k \in leases}

\* C34: no barging: a waiter woken by a release obtains a lease on its
\* retry, and between the release and that retry no other call is handed
\* the freed connection or capacity, so the woken waiter does not go back
\* to the tail of its queue.
C34_NoBarging ==
    [][\A t \in Tasks :
         /\ pc[t] = "acq_retry" /\ pc'[t] # "acq_retry" => pc'[t] = "Ok"
         /\ Woken(t) /\ HandsOut => pc'[t] = "Ok"]_vars

\* C34 witness: the waiter was woken by the release of the only
\* connection and is about to retry, and a try_acquire that started after
\* the release has been handed the freed capacity: the pool is full again.
C34_Witness ==
    /\ pc[1] = "acq_retry"
    /\ m_total_in_use = 1
    /\ \E l \in leases : l.id = 2 /\ l.st = "held"
    /\ ~Obtainable(1)

\* C35: a global-capacity waiter for E2 that the release of a connection on
\* E1 has woken, with no other acquirer competing, obtains a lease on its
\* retry, also when the connection was healthy and went to the idle deque
\* of E1: that idle connection does not keep the pool at
\* max_total_connections for E2.
C35_GlobalWaiterServed ==
    [][pc[1] = "acq_retry" /\ call[1].ep = E2 /\ pc'[1] # "acq_retry"
         => pc'[1] = "Ok"]_vars

\* C35 witness: B, woken by the release of A's healthy connection, has
\* retried and is enqueued again in the global queue: nothing is in use,
\* no lease is held, and the idle connection of E1 fills the pool.
C35_Witness ==
    /\ pc[1] \in {"acq_unlocked", "acq_suspended"}
    /\ call[1].ep = E2
    /\ m_global_waiters = <<1>> /\ waiter[1].active
    /\ leases = {} /\ m_total_in_use = 0
    /\ Len(m_buckets[E1].idle) = 1

\* no pool operation is in progress: no release() or shutdown() is under
\* way and no acquire() is between two of its steps
Quiescent ==
    /\ \A l \in leases : l.st = "held"
    /\ sd.pc = "none"
    /\ \A t \in Tasks : pc[t] \in Returned \cup {"acq_suspended"}

\* task t sleeps in its wait with the infinite timeout: nothing has woken
\* it
Asleep(t) ==
    /\ pc[t] = "acq_suspended"
    /\ call[t].timeout = Inf
    /\ timer[t].st = "pending"
    /\ InRegistry(t) /\ waiter[t].active

\* C36: no waiter sleeps while it could be served: whenever no pool
\* operation is in progress and a waiter is suspended with the infinite
\* timeout, try_acquire for its endpoint would return None (so a waiter
\* blocked by idle connections of other endpoints, or by an open circuit,
\* is served once the idle TTL or the circuit timeout has elapsed).
C36_NoSleepingServable ==
    \A t \in Tasks : Quiescent /\ Asleep(t) => ~Obtainable(t)

\* C36 witness: B sleeps in acquire(E2) with the infinite timeout, no lease
\* is held, the idle connection of E1 that filled the pool has outlived
\* connection_idle_ttl, and try_acquire(E2) would be served.
C36_Witness ==
    /\ Quiescent /\ Asleep(1) /\ Obtainable(1)
    /\ call[1].ep = E2
    /\ leases = {}
    /\ Len(m_buckets[E1].idle) = 1
    /\ now - m_buckets[E1].idle[1].last_used >= m_cfg.connection_idle_ttl

\* the acquire of task 1 returns Timeout in this step
TimesOut == pc[1] = "acq_suspended" /\ pc'[1] = "Timeout"

\* C37: the timeout passed to acquire bounds the whole call: an acquire
\* with the finite timeout T, called at time 0, that returns Timeout does
\* so on a timer that expires no later than T, however many times it was
\* woken by releases and lost the retry; and no timer of the call is set
\* to expire later than T.
C37_TimeoutBoundsCall ==
    /\ [][TimesOut => timer[1].expiry <= call[1].timeout]_vars
    /\ [](pc[1] \notin Returned /\ timer[1].st # "none"
             => timer[1].expiry <= call[1].timeout)

\* C37 witness: acquire(E1, 0), called at time 0, was woken by a release,
\* lost its retry at time 1 and armed a new timer: that timer has expired
\* at time 1 and the call is about to return Timeout, one tick after its
\* timeout.
C37_Witness ==
    /\ pc[1] = "acq_suspended"
    /\ call[1].timeout = 0
    /\ timer[1].st = "fired"
    /\ timer[1].expiry = 1
    /\ waiter[1].active

\* the circuit of endpoint ep, as passed, is open in the buckets bk at time t
CircuitOpen(bk, ep, t) == is_circuit_open(BucketOf(bk, ep), t)

\* this step changes circuit_open_until of some bucket
OpenUntilChanges ==
    \E ep \in DOMAIN m_buckets \cup DOMAIN m_buckets' :
      BucketOf(m_buckets', ep).circuit_open_until
        # BucketOf(m_buckets, ep).circuit_open_until

\* C38: an open circuit closes only by the passage of time: a step that
\* changes circuit_open_until of a bucket is a report_failure;
\* report_success on an endpoint whose circuit is open resets
\* consecutive_failures and raises circuit_breaker_closed and leaves the
\* circuit open; and while the clock is before circuit_open_until,
\* try_acquire on the endpoint returns None.
C38_ClosesOnlyByTime ==
    /\ [][OpenUntilChanges => \E e \in EndpointInputs : ReportFailure(e)]_vars
    /\ [][ReportSuccess(E1) /\ CircuitOpen(m_buckets, E1, now) =>
            /\ Failures(E1)' = 0
            /\ m_metrics'.circuit_breaker_closed
                 = m_metrics.circuit_breaker_closed + 1
            /\ CircuitOpen(m_buckets', E1, now')
            /\ TryAcquireNow(E1)'.lease = NoLease]_vars
    /\ [](\A e \in EndpointInputs :
            CircuitOpen(m_buckets, normalize_endpoint(e), now)
              => TryAcquireNow(e).lease = NoLease)

\* C38 witness: report_success was called while the circuit of E1 was
\* open: the failures are reset and counted as a close, the clock is still
\* before circuit_open_until and try_acquire(E1) returns None.
C38_Witness ==
    /\ CircuitOpen(m_buckets, E1, now)
    /\ Failures(E1) = 0
    /\ m_metrics.circuit_breaker_closed > 0
    /\ TryAcquireNow(E1).lease = NoLease

\* the release that the drop of lease l has called finds the bucket of the
\* lease's endpoint and the lease's id in its in_use table
ReleaseFindsId(l) ==
    /\ l.endpoint \in DOMAIN m_buckets
    /\ \E u \in m_buckets[l.endpoint].in_use : u.id = l.id

\* C39: release_invalid_id stays 0 under the public API (try_acquire,
\* acquire, lease moves and drops, report_failure, report_success, shutdown,
\* drain): every release called by the drop of a lease finds the bucket of
\* its endpoint and its id in the bucket's in_use table.
C39_NoInvalidRelease ==
    /\ m_metrics.release_invalid_id = 0
    /\ \A l \in leases : l.st = "release" => ReleaseFindsId(l)

\* C39 witness: a lease was moved to a new Lease object and that object is
\* dropped: its release is called, next to the moved-from object, and finds
\* the id.
C39_Witness ==
    \E l \in leases, o \in leases :
      /\ l.st = "release"
      /\ l.obj \in MovedObjs
      /\ ReleaseFindsId(l)
      /\ o.st = "held"
      /\ o.m_conn = NullConn

\* the connections the buckets own: the sum over the buckets of
\* in_use.size() + idle.size()
Owned ==
    SumOver(DOMAIN m_buckets,
            [e \in DOMAIN m_buckets |->
               Cardinality(m_buckets[e].in_use) + Len(m_buckets[e].idle)])

\* the connections counted as pruned or dropped
Gone ==
    m_metrics.connection_pruned + m_metrics.connection_dropped_unhealthy
      + m_metrics.connection_dropped_reuse_limit
      + m_metrics.connection_dropped_age_limit

\* C40: connection conservation: whenever the pool lock is free,
\* connection_created equals the connections in the in_use tables and the
\* idle lists of the buckets plus connection_pruned,
\* connection_dropped_unhealthy, connection_dropped_reuse_limit and
\* connection_dropped_age_limit.
C40_ConnectionConservation == m_metrics.connection_created = Owned + Gone

\* C40 witness: two connections were created; one is owned by a bucket
\* and the other was pruned from an idle list.
C40_Witness ==
    /\ m_metrics.connection_created = 2
    /\ Owned = 1
    /\ m_metrics.connection_pruned = 1

====
